---- MODULE Spec2Model ----
(***************************************************************************)
(* Differential update engine of EasyScanlate:                             *)
(*   src/dev/updater/create_update_package.py  (package builder)           *)
(*   src/app/utils/update.py                   (UpdateHandler: resolver,   *)
(*                                              download manager)          *)
(*   src/dev/updater/updater.py                (UpdateWorker: applier)     *)
(*                                                                         *)
(* A version tag "v<n>" is modelled by the number n; tags are compared as  *)
(* Python compares the strings (character by character).  A file's content *)
(* is modelled by its hash, a package archive by its entries.              *)
(***************************************************************************)
EXTENDS Integers, Sequences, FiniteSets, TLC

\* ------------------------------------------------------------------ bounds
\* Largest package size (bytes, in model units) the resolver inputs draw from.
MaxSize == 3
\* Largest content hash a manifest of the apply inputs draws from.
MaxHash == 2

\* Largest number of download sessions started in one run of the application.
MaxSessions == 2

\* Manifest Builder runs followed.
MaxRuns == 5

\* Tags of the published versions, in release order 1 < 2 < 3 < 10.
TagPool == {1, 2, 3, 10}

\* --------------------------------------------------------- Python helpers
\* None
None == <<>>

\* float('inf') of distances (update.py:181, updater.py:185)
Inf == -1

RECURSIVE Digits(_)
\* str(n): the decimal digits of n
Digits(n) ==
    IF n < 10 THEN <<n>> ELSE Append(Digits(n \div 10), n % 10)

RECURSIVE SeqLess(_, _)
\* Python's s < t on two strings (here: digit sequences behind the "v")
SeqLess(s, t) ==
    IF s = <<>> THEN t # <<>>
    ELSE IF t = <<>> THEN FALSE
    ELSE IF Head(s) # Head(t) THEN Head(s) < Head(t)
    ELSE SeqLess(Tail(s), Tail(t))

\* "v<a>" < "v<b>" as strings
StrLess(a, b) == SeqLess(Digits(a), Digits(b))

\* "v<a>" > "v<b>" as strings (update.py:95)
StrGreater(a, b) == StrLess(b, a)

\* sorted(keys, reverse=True)[0]: the greatest tag under string ordering
SortedReverseFirst(S) ==
    CHOOSE v \in S : \A w \in S : w = v \/ StrLess(w, v)

RECURSIVE SetToSeq(_)
\* the elements of a set of numbers in ascending order (release order)
SetToSeq(S) ==
    IF S = {} THEN <<>>
    ELSE LET m == CHOOSE x \in S : \A y \in S : x <= y
         IN  <<m>> \o SetToSeq(S \ {m})

\* Mutant of Reverse: the walk from the end is returned as it was built.
Unreversed(s) == s

RECURSIVE Reverse(_)
\* list.reverse()
Reverse(s) ==
    IF s = <<>> THEN <<>> ELSE Append(Reverse(Tail(s)), Head(s))

RECURSIVE SumSizes(_)
\* sum(pkg['size'] for pkg in path)
SumSizes(path) ==
    IF path = <<>> THEN 0 ELSE Head(path).size + SumSizes(Tail(path))

\* Mutant of DistLess: a reached version is never relaxed again.
DistLessOnlyUnreached(new_dist, d) == d = Inf

\* new_dist < distances[to_v], with distances[to_v] possibly float('inf')
DistLess(new_dist, d) == d = Inf \/ new_dist < d

\* heapq orders the (dist, version) tuples: by dist, then by the version string
TupleLess(a, b) == a[1] < b[1] \/ (a[1] = b[1] /\ StrLess(a[2], b[2]))

\* heapq.heappop(pq): the smallest tuple of the heap
HeapMin(pq) == CHOOSE e \in pq : \A f \in pq : f = e \/ TupleLess(e, f)

\* pkg.copy() with pkg['download_from_tag'] = to_v (update.py:210-211,
\* updater.py:181-182)
WithTarget(pkg, to_v) ==
    [file |-> pkg.file, size |-> pkg.size, from_version |-> pkg.from_version,
     type |-> pkg.type, download_from_tag |-> to_v]

\* manifest['packages'].items(): keys in insertion (= release) order
PackagesItems(m) == SetToSeq(DOMAIN m.packages)

\* ------------------------------------------- UpdateHandler._find_update_path
RECURSIVE HandlerEdgesOf(_, _, _)
\* update.py:176-179: one edge (from_version, to_v, size, pkg) per package
HandlerEdgesOf(m, to_v, pkgs) ==
    IF pkgs = <<>> THEN <<>>
    ELSE <<[from_v |-> Head(pkgs).from_version, to_v |-> to_v,
            size |-> Head(pkgs).size, pkg |-> Head(pkgs)]>>
         \o HandlerEdgesOf(m, to_v, Tail(pkgs))

RECURSIVE HandlerEdgesFrom(_, _)
HandlerEdgesFrom(m, keys) ==
    IF keys = <<>> THEN <<>>
    ELSE HandlerEdgesOf(m, Head(keys), m.packages[Head(keys)])
         \o HandlerEdgesFrom(m, Tail(keys))

HandlerEdges(m) == HandlerEdgesFrom(m, PackagesItems(m))

\* update.py:197-201: relaxing one edge out of current_v
HandlerRelaxEdge(e, current_dist, current_v, st) ==
    LET new_dist == current_dist + e.size
    IN  IF e.from_v = current_v /\ DistLess(new_dist, st.distances[e.to_v])
        THEN [distances |-> [st.distances EXCEPT ![e.to_v] = new_dist],
              previous_nodes |-> [st.previous_nodes EXCEPT
                                     ![e.to_v] = <<current_v, e.pkg, e.to_v>>],
              pq |-> st.pq \cup {<<new_dist, e.to_v>>}]
        ELSE st

RECURSIVE HandlerRelax(_, _, _, _)
\* update.py:195-201: for from_v, to_v, size, pkg in edges
HandlerRelax(edges, current_dist, current_v, st) ==
    IF edges = <<>> THEN st
    ELSE HandlerRelax(Tail(edges), current_dist, current_v,
                      HandlerRelaxEdge(Head(edges), current_dist, current_v, st))

RECURSIVE HandlerDijkstra(_, _)
\* update.py:190-201: while pq
HandlerDijkstra(edges, st) ==
    IF st.pq = {} THEN st
    ELSE LET top == HeapMin(st.pq)
             popped == [st EXCEPT !.pq = st.pq \ {top}]
         IN  IF top[1] > st.distances[top[2]]
             THEN HandlerDijkstra(edges, popped)
             ELSE HandlerDijkstra(edges, HandlerRelax(edges, top[1], top[2], popped))

RECURSIVE HandlerWalk(_, _, _, _)
\* update.py:205-213: walk the predecessor links back from end_version
HandlerWalk(previous_nodes, start_version, current, path) ==
    IF current = start_version THEN Reverse(path)
    ELSE LET prev_info == IF current \in DOMAIN previous_nodes
                          THEN previous_nodes[current] ELSE None
         IN  IF prev_info = None THEN <<>>
             ELSE HandlerWalk(previous_nodes, start_version, prev_info[1],
                      Append(path, WithTarget(prev_info[2], prev_info[3])))

\* update.py:174-216
UpdateHandler_find_update_path(m, start_version, end_version) ==
    IF start_version \notin DOMAIN m.versions THEN <<>>
    ELSE LET st0 == [distances |-> [v \in DOMAIN m.versions |->
                                      IF v = start_version THEN 0 ELSE Inf],
                     previous_nodes |-> [v \in DOMAIN m.versions |-> None],
                     pq |-> {<<0, start_version>>}]
             st == HandlerDijkstra(HandlerEdges(m), st0)
         IN  HandlerWalk(st.previous_nodes, start_version, end_version, <<>>)

\* --------------------------------------------- UpdateWorker._find_update_path
RECURSIVE WorkerEdgesOf(_, _, _)
\* updater.py:177-183: the edge carries the package with its target tag
WorkerEdgesOf(m, to_v, pkgs) ==
    IF pkgs = <<>> THEN <<>>
    ELSE <<[from_v |-> Head(pkgs).from_version, to_v |-> to_v,
            size |-> Head(pkgs).size,
            pkg |-> WithTarget(Head(pkgs), to_v)]>>
         \o WorkerEdgesOf(m, to_v, Tail(pkgs))

RECURSIVE WorkerEdgesFrom(_, _)
WorkerEdgesFrom(m, keys) ==
    IF keys = <<>> THEN <<>>
    ELSE WorkerEdgesOf(m, Head(keys), m.packages[Head(keys)])
         \o WorkerEdgesFrom(m, Tail(keys))

WorkerEdges(m) == WorkerEdgesFrom(m, PackagesItems(m))

\* Mutant of WorkerRelaxEdge: the applier's resolver keeps the first chain
\* that reaches a version.
WorkerRelaxEdgeFirstFound(e, current_dist, current_v, st) ==
    LET new_dist == current_dist + e.size
    IN  IF e.from_v = current_v /\ st.distances[e.to_v] = Inf
        THEN [distances |-> [st.distances EXCEPT ![e.to_v] = new_dist],
              previous_nodes |-> [st.previous_nodes EXCEPT
                                     ![e.to_v] = <<current_v, e.pkg>>],
              pq |-> st.pq \cup {<<new_dist, e.to_v>>}]
        ELSE st

\* updater.py:201-205
WorkerRelaxEdge(e, current_dist, current_v, st) ==
    LET new_dist == current_dist + e.size
    IN  IF e.from_v = current_v /\ DistLess(new_dist, st.distances[e.to_v])
        THEN [distances |-> [st.distances EXCEPT ![e.to_v] = new_dist],
              previous_nodes |-> [st.previous_nodes EXCEPT
                                     ![e.to_v] = <<current_v, e.pkg>>],
              pq |-> st.pq \cup {<<new_dist, e.to_v>>}]
        ELSE st

RECURSIVE WorkerRelax(_, _, _, _)
\* updater.py:199-205
WorkerRelax(edges, current_dist, current_v, st) ==
    IF edges = <<>> THEN st
    ELSE WorkerRelax(Tail(edges), current_dist, current_v,
                     WorkerRelaxEdge(Head(edges), current_dist, current_v, st))

RECURSIVE WorkerDijkstra(_, _)
\* updater.py:194-205
WorkerDijkstra(edges, st) ==
    IF st.pq = {} THEN st
    ELSE LET top == HeapMin(st.pq)
             popped == [st EXCEPT !.pq = st.pq \ {top}]
         IN  IF top[1] > st.distances[top[2]]
             THEN WorkerDijkstra(edges, popped)
             ELSE WorkerDijkstra(edges, WorkerRelax(edges, top[1], top[2], popped))

RECURSIVE WorkerWalk(_, _, _, _)
\* updater.py:209-215
WorkerWalk(previous_nodes, start_version, current, path) ==
    IF current = start_version THEN Reverse(path)
    ELSE LET prev_info == IF current \in DOMAIN previous_nodes
                          THEN previous_nodes[current] ELSE None
         IN  IF prev_info = None THEN <<>>
             ELSE WorkerWalk(previous_nodes, start_version, prev_info[1],
                             Append(path, prev_info[2]))

\* updater.py:175-218
UpdateWorker_find_update_path(m, start_version, end_version) ==
    IF start_version \notin DOMAIN m.versions THEN <<>>
    ELSE LET st0 == [distances |-> [v \in DOMAIN m.versions |->
                                      IF v = start_version THEN 0 ELSE Inf],
                     previous_nodes |-> [v \in DOMAIN m.versions |-> None],
                     pq |-> {<<0, start_version>>}]
             st == WorkerDijkstra(WorkerEdges(m), st0)
         IN  WorkerWalk(st.previous_nodes, start_version, end_version, <<>>)

\* ------------------------------------------------------- resolver inputs
\* One package entry of the master manifest (create_update_package.py:128,
\* 209); the file name update-<from>-to-<to>.zip is the pair <<from, to>>.
Package(from_version, to_version, size, type) ==
    [file |-> <<from_version, to_version>>, size |-> size,
     from_version |-> from_version, type |-> type]

\* What a release may add besides its direct package: no hop package, or one
\* from an earlier, non-adjacent release (position, size).
HopOptions(j) == {None} \cup ((1..(j - 2)) \X (1..MaxSize))

\* The shapes of a master manifest over n releases: the size of each direct
\* package (0: none was built), the hop package of each release, and, for a
\* manifest without hop packages, whether a package leads back from the
\* newest release to the oldest (a cycle).
GraphShapes(n) ==
    { g \in [direct : [2..n -> 0..MaxSize],
             hop : [3..n -> HopOptions(n)],
             back : IF n >= 2 THEN 0..1 ELSE {0}] :
        /\ \A j \in 3..n : g.hop[j] \in HopOptions(j)
        /\ g.back > 0 => \A j \in 3..n : g.hop[j] = None }

\* The master manifest over the releases vs (in release order) of shape g;
\* every file manifest holds the main executable only.
GraphManifest(vs, g) ==
    LET n == Len(vs)
        pos(v) == CHOOSE j \in 1..n : vs[j] = v
        direct(j) == IF j >= 2 /\ g.direct[j] > 0
                     THEN <<Package(vs[j - 1], vs[j], g.direct[j], "direct")>>
                     ELSE <<>>
        hop(j) == IF j >= 3 /\ g.hop[j] # None
                  THEN <<Package(vs[g.hop[j][1]], vs[j], g.hop[j][2], "cumulative")>>
                  ELSE <<>>
        back(j) == IF j = 1 /\ g.back > 0
                   THEN <<Package(vs[n], vs[1], g.back, "direct")>>
                   ELSE <<>>
    IN  [versions |-> [v \in {vs[j] : j \in 1..n} |-> [p \in {"main.exe"} |-> v]],
         packages |-> [v \in {vs[j] : j \in 1..n} |->
                          direct(pos(v)) \o hop(pos(v)) \o back(pos(v))]]

\* v1 -> v2 (10), v2 -> v3 (1), v3 -> v4 (5) and the hop v1 -> v4 (12)
RoutingScenario ==
    [versions |-> [v \in 1..4 |-> [p \in {"main.exe"} |-> v]],
     packages |-> [v \in 1..4 |->
        CASE v = 1 -> <<>>
          [] v = 2 -> <<Package(1, 2, 10, "direct")>>
          [] v = 3 -> <<Package(2, 3, 1, "direct")>>
          [] v = 4 -> <<Package(3, 4, 5, "direct"), Package(1, 4, 12, "cumulative")>>]]

ResolveManifests ==
    UNION { { GraphManifest(SetToSeq(V), g) : g \in GraphShapes(Cardinality(V)) } :
            V \in (SUBSET TagPool) \ {{}} }
    \cup {RoutingScenario}

\* The newest release of a manifest: the release the manifest was published
\* with (create_update_package.py:160), whose tag is the latest release's
\* tag_name.
NewestRelease(m) == CHOOSE v \in DOMAIN m.versions : \A w \in DOMAIN m.versions : w <= v

\* "v0.0.0", the fallback of get_app_version (update.py:26, updater.py:48)
FallbackVersion == 0

\* ------------------------------------------------ create_update_package.py
\* A relative path is the sequence of its pieces, "." being a dot character:
\* main.exe, b.txt and a..b (a file name with two dots in a row).
MAIN_APP_EXE == <<"main", ".", "exe">>

PlainPath == <<"b", ".", "txt">>

DottedPath == <<"a", ".", ".", "b">>

\* ".." in relative_path (updater.py:259)
HasDotDot(path) ==
    \E i \in 1..(Len(path) - 1) : path[i] = "." /\ path[i + 1] = "."

\* f"{to_executable_path.name}-{from_version}-to-{to_version}.patch"
\* (create_update_package.py:80)
PatchName(from_version, to_version) ==
    MAIN_APP_EXE \o <<"-", ToString(from_version), "-to-", ToString(to_version),
                     ".", "patch">>

\* Mutant of FilesToPackage: every file of the new build is packaged.
FilesToPackageAll(from_manifest, to_manifest) == DOMAIN to_manifest

\* create_update_package.py:85-88: the new or modified files
FilesToPackage(from_manifest, to_manifest) ==
    { file \in DOMAIN to_manifest :
        file \notin DOMAIN from_manifest \/ from_manifest[file] # to_manifest[file] }

\* An entry of a package archive: a whole file (its content hash), or the
\* binary delta that turns the content old into the content new.
WholeFile(hash) == [kind |-> "file", hash |-> hash]

Delta(old, new) == [kind |-> "patch", old |-> old, new |-> new]

\* os.path.getsize(package_name) (create_update_package.py:125): the size of
\* an archive is modelled by the number of its members.
ZipSize(zip) == 1 + Cardinality(DOMAIN zip.entries)

\* Mutant of ExecutablePatched: the executable is never shipped as a delta.
ExecutableNeverPatched(files_to_package, old_exe) == FALSE

\* create_update_package.py:94-96: the executable changed and the old
\* executable is there to make a delta from
ExecutablePatched(files_to_package, old_exe) ==
    MAIN_APP_EXE \in files_to_package /\ old_exe # None

\* create_update_package.py:72-128.  old_exe is <<hash>> of the old release's
\* executable when it was obtained, None otherwise.  The result is None
\* (nothing changed) or the manifest entry with the archive built for it.
create_differential_package(from_version, to_version, from_manifest, to_manifest, old_exe, type) ==
    LET files_to_package == FilesToPackage(from_manifest, to_manifest)
        patched == ExecutablePatched(files_to_package, old_exe)
        patch_name == PatchName(from_version, to_version)
        patch_info == IF patched
                      THEN <<[file |-> MAIN_APP_EXE, patch_file |-> patch_name,
                              old_sha256 |-> old_exe[1]]>>
                      ELSE None
        names == IF patched
                 THEN (files_to_package \ {MAIN_APP_EXE}) \cup {patch_name}
                 ELSE files_to_package
        zip == [package_manifest |-> [patch |-> patch_info],
                entries |-> [f \in names |->
                               IF patched /\ f = patch_name
                               THEN Delta(old_exe[1], to_manifest[MAIN_APP_EXE])
                               ELSE WholeFile(to_manifest[f])]]
    IN  IF files_to_package = {} THEN None
        ELSE <<[info |-> Package(from_version, to_version, ZipSize(zip), type),
                zip |-> zip]>>

\* ---------------------------------------------------------- apply inputs
\* The file manifests of three releases v1, v2, v3: the main executable in
\* every release, one more file (other) that a release may or may not hold.
ApplyVersions == {1, 2, 3}

FileManifestOf(exe, other, h) ==
    [p \in {MAIN_APP_EXE} \cup (IF h = 0 THEN {} ELSE {other}) |->
        IF p = MAIN_APP_EXE THEN exe ELSE h]

ApplyFileManifests ==
    { [v \in ApplyVersions |-> FileManifestOf(e[v], other, o[v])] :
        e \in { x \in [ApplyVersions -> 1..MaxHash] : x[1] = 1 },
        o \in [ApplyVersions -> 0..MaxHash],
        other \in {PlainPath, DottedPath} }

\* create_update_package.py:186-212 for one release: the packages built from
\* the given targets (a sequence of <<from_version, type>>), None results
\* dropped.  The old executable of a release is the one its manifest records;
\* have_old_exe tells whether fetch_asset obtains it.
RECURSIVE BuildPackages(_, _, _, _)
BuildPackages(fm, to_version, targets, have_old_exe) ==
    IF targets = <<>> THEN <<>>
    ELSE LET from_version == Head(targets)[1]
             built == create_differential_package(
                          from_version, to_version, fm[from_version], fm[to_version],
                          IF have_old_exe THEN <<fm[from_version][MAIN_APP_EXE]>>
                          ELSE None,
                          Head(targets)[2])
         IN  built \o BuildPackages(fm, to_version, Tail(targets), have_old_exe)

\* The packages of the three releases: a direct package from the release
\* before and, for v3 when hop is set, a cumulative package from v1.
BuiltFor(fm, hop, have_old_exe) ==
    [v \in ApplyVersions |->
        BuildPackages(fm, v,
            CASE v = 1 -> <<>>
              [] v = 2 -> <<<<1, "direct">>>>
              [] v = 3 -> IF hop THEN <<<<2, "direct">>, <<1, "cumulative">>>>
                          ELSE <<<<2, "direct">>>>,
            have_old_exe)]

RECURSIVE Infos(_)
Infos(built) ==
    IF built = <<>> THEN <<>> ELSE <<Head(built).info>> \o Infos(Tail(built))

\* The master manifest of the three releases.
MasterManifest(fm, built) ==
    [versions |-> fm, packages |-> [v \in ApplyVersions |-> Infos(built[v])]]

\* The release assets: the archive published under each package file name.
ReleaseAssets(built) ==
    LET all == UNION { { built[v][i] : i \in 1..Len(built[v]) } : v \in ApplyVersions }
    IN  [f \in { b.info.file : b \in all } |->
            (CHOOSE b \in all : b.info.file = f).zip]

\* An empty directory: no path, no content.
NoFiles == [f \in {} |-> 0]

\* ------------------------------------------------------------------ state
VARIABLES
    manifest,       \* the master manifest published with the latest release
    tag_name,       \* the latest release's tag_name
    assets,         \* the release assets: package file name -> archive
    end_version,    \* resolver harness: the target the resolvers are asked for
    stage,          \* resolver harness: which applications have been made
    found_h,        \* UpdateHandler._find_update_path(app_version, end_version)
    found_w,        \* UpdateWorker._find_update_path(app_version, end_version)
    app_version,    \* UpdateHandler.app_version
    update_path,    \* UpdateHandler.update_path (toward tag_name)
    install,        \* the install directory: path -> content hash
    patched_new,    \* the sibling file <target>.new (None: absent)
    marker,         \* content of APPVERSION in the install directory
    temp_exists,    \* the temp data directory exists
    temp_manifest,  \* manifest.json in the temp data directory (None: absent)
    temp_files,     \* package files in the temp data directory: name -> bytes
    extract,        \* the directory "extracted": None, or the extracted archive
    w_pc,           \* UpdateWorker.run: where the run stands
    w_step,         \* UpdateWorker.run: index i of the step being applied
    latest_version, \* UpdateWorker.run: all_versions[0]
    worker_path,    \* UpdateWorker.run: update_path
    finished,       \* the emissions of the finished signal, in order
    launched,       \* subprocess.Popen started the main executable
    step_log,       \* per step begun: what the step did (observation)
    h_pc,           \* per session: where the session's worker thread stands
    latest_release_data, \* UpdateHandler.latest_release_data
    manifest_data,  \* UpdateHandler.manifest_data / manifest
    download_queue, \* UpdateHandler.download_queue
    current,        \* per session: the package _run_download_file is fetching
    handle,         \* per session: the file _run_download_file has open
    downloaded_files,     \* UpdateHandler.downloaded_files
    total_download_size,  \* UpdateHandler.total_download_size
    total_bytes_received, \* UpdateHandler.total_bytes_received
    settings,       \* QSettings value "downloaded_update_dir"
    signals,        \* the signals UpdateHandler emitted, in order
    app_running,    \* the application process is running
    sessions,       \* download sessions started so far
    session_log,    \* per session: what it found and asked for (observation)
    c_pc,           \* _run_check_for_updates: where the check thread stands
    c_resp,         \* _run_check_for_updates: the response of session.get
    c_emit,         \* _run_check_for_updates: the statements of the branch taken
    abort_check_flag,  \* UpdateHandler._abort_check_flag
    handler_deleted,   \* Home called update_handler.deleteLater()
    timer,          \* Home.update_check_timer: unset, running, fired, stopped
    event_queue,    \* signals queued for the slots of Home, in order
    home_log,       \* what the slots of Home did, in order (observation)
    abort_at,       \* signals emitted when abort_check came during the call
    c_old,          \* threads of earlier checks still blocked in session.get
    master,         \* the manifest.json asset of the latest release (None: no release)
    released,       \* the tags of the releases built so far, in order
    build_log,      \* the last builder run: what it found and chose (observation)
    install_dir,    \* the install directory given to the updater exists
    main_exited,    \* the process of the main application has ended
    previous_run,   \* the install directory as an earlier, failed run of the updater left it (observation)
    body1,          \* the body of the new issue
    body2,          \* the body of the existing issue
    levenshtein,    \* what the Levenshtein module gives (None: not installed)
    traceback_sim   \* what calculate_traceback_similarity returned

releaseVars == <<manifest, tag_name, assets>>

harnessVars == <<end_version, stage, found_h, found_w>>

handlerVars == <<app_version, update_path>>

installVars == <<install, patched_new, marker>>

tempVars == <<temp_exists, temp_manifest, temp_files, extract>>

workerVars == <<w_pc, w_step, latest_version, worker_path, finished, launched,
                step_log>>

downloadVars == <<h_pc, latest_release_data, manifest_data, download_queue,
                  current, handle, downloaded_files, total_download_size,
                  total_bytes_received, settings, signals, app_running,
                  sessions, session_log>>

checkVars == <<c_pc, c_resp, c_emit, abort_check_flag, handler_deleted, timer,
               event_queue, home_log, abort_at, c_old>>

buildVars == <<master, released, build_log>>

processVars == <<install_dir, main_exited, previous_run>>

issueVars == <<body1, body2, levenshtein, traceback_sim>>

vars == <<releaseVars, harnessVars, handlerVars, installVars, tempVars, workerVars,
          downloadVars, checkVars, buildVars, processVars, issueVars>>

\* No install directory, temp directory or applier in this specification.
NoDisk ==
    /\ install_dir = TRUE
    /\ previous_run = None
    /\ install = NoFiles
    /\ patched_new = None
    /\ marker = None
    /\ temp_exists = FALSE
    /\ temp_manifest = None
    /\ temp_files = NoFiles
    /\ extract = None

\* No update check and no startup timer in this specification.
CheckUnused ==
    /\ c_pc = "idle"
    /\ c_resp = None
    /\ c_emit = <<>>
    /\ abort_check_flag = FALSE
    /\ handler_deleted = FALSE
    /\ timer = "unset"
    /\ event_queue = <<>>
    /\ home_log = <<>>
    /\ abort_at = None
    /\ c_old = 0

\* No issue compared in this specification.
IssueUnused ==
    /\ body1 = None
    /\ body2 = None
    /\ levenshtein = None
    /\ traceback_sim = None

\* No builder run in this specification.
BuildUnused ==
    /\ master = None
    /\ released = <<>>
    /\ build_log = None

WorkerNotStarted ==
    /\ w_pc = "start"
    /\ w_step = 0
    /\ latest_version = None
    /\ worker_path = <<>>
    /\ finished = <<>>
    /\ launched = FALSE
    /\ step_log = <<>>

\* The download sessions of one run of the application, by their number.
Sessions == 1..MaxSessions

\* The record of a session not started.
BlankSession ==
    [present_at_start |-> {}, partial_at_start |-> NoFiles, requests |-> <<>>,
     fetch_failed |-> FALSE, settings_before |-> None, written |-> 0,
     path |-> <<>>, progress |-> <<>>, no_path |-> FALSE, disk_before |-> None]

\* What a session records at its start.
NewSession == [BlankSession EXCEPT !.settings_before = settings]

\* No file open: the position in the open file, and whether the open file is
\* still the one found under its path.
NoHandle == [pos |-> 0, linked |-> FALSE]

\* No session started: no worker thread, nothing recorded.
NoSessions ==
    /\ h_pc = [t \in Sessions |-> "unstarted"]
    /\ current = [t \in Sessions |-> None]
    /\ handle = [t \in Sessions |-> NoHandle]
    /\ sessions = 0
    /\ session_log = [t \in Sessions |-> BlankSession]

\* update.py:38-51: the handler as constructed, no session started.
HandlerIdle ==
    /\ NoSessions
    /\ latest_release_data = None
    /\ manifest_data = None
    /\ download_queue = <<>>
    /\ downloaded_files = <<>>
    /\ total_download_size = 0
    /\ total_bytes_received = 0
    /\ settings = None
    /\ signals = <<>>

\* The main application runs: its event loop runs, its process has not ended.
MainAppRunning ==
    /\ app_running = TRUE
    /\ main_exited = FALSE

\* The main application has quit and its process has ended.
MainAppGone ==
    /\ app_running = FALSE
    /\ main_exited = TRUE

HarnessUnused ==
    /\ end_version = None
    /\ stage = "unused"
    /\ found_h = <<>>
    /\ found_w = <<>>

\* ------------------------------------------------------ resolver harness
InitResolve ==
    /\ manifest \in ResolveManifests
    /\ tag_name = NewestRelease(manifest)
    /\ assets = <<>>
    /\ app_version \in DOMAIN manifest.versions \cup {FallbackVersion}
    /\ end_version \in DOMAIN manifest.versions
    /\ stage = "inputs"
    /\ found_h = <<>>
    /\ found_w = <<>>
    /\ update_path = <<>>
    /\ NoDisk
    /\ WorkerNotStarted
    /\ CheckUnused
    /\ BuildUnused
    /\ IssueUnused
    /\ HandlerIdle
    /\ MainAppRunning

\* the requester's resolver applied to (app_version, end_version)
FindPathHandler ==
    /\ stage = "inputs"
    /\ found_h' = UpdateHandler_find_update_path(manifest, app_version, end_version)
    /\ stage' = "handler"
    /\ UNCHANGED <<downloadVars, releaseVars, checkVars, buildVars, processVars, issueVars,
                   end_version, found_w, handlerVars, installVars,
                   tempVars, workerVars>>

\* the applier's resolver applied to (app_version, end_version)
FindPathWorker ==
    /\ stage = "handler"
    /\ found_w' = UpdateWorker_find_update_path(manifest, app_version, end_version)
    /\ stage' = "worker"
    /\ UNCHANGED <<downloadVars, releaseVars, checkVars, buildVars, processVars, issueVars,
                   end_version, found_h, handlerVars, installVars,
                   tempVars, workerVars>>

\* update.py:95 (an update is offered) and update.py:156-160: the requester
\* resolves from the installed version toward the latest release's tag_name
ResolveForDownload ==
    /\ stage = "worker"
    /\ StrGreater(tag_name, app_version)
    /\ update_path' = UpdateHandler_find_update_path(manifest, app_version, tag_name)
    /\ stage' = "downloaded"
    /\ UNCHANGED <<downloadVars, releaseVars, checkVars, buildVars, processVars, issueVars,
                   end_version, found_h, found_w, app_version,
                   installVars, tempVars, workerVars>>

\* updater.py:81-87: the applier, started on the downloaded session, resolves
\* from the version marker toward the greatest key of manifest["versions"]
ResolveForApply ==
    /\ stage = "downloaded"
    /\ update_path # <<>>
    /\ latest_version' = SortedReverseFirst(DOMAIN manifest.versions)
    /\ worker_path' = UpdateWorker_find_update_path(manifest, app_version,
                          SortedReverseFirst(DOMAIN manifest.versions))
    /\ stage' = "applied"
    /\ UNCHANGED <<downloadVars, releaseVars, checkVars, buildVars, processVars, issueVars,
                   end_version, found_h, found_w, handlerVars,
                   installVars, tempVars, w_pc, w_step, finished, launched,
                   step_log>>

NextResolve ==
    \/ FindPathHandler
    \/ FindPathWorker
    \/ ResolveForDownload
    \/ ResolveForApply

SpecResolve == InitResolve /\ [][NextResolve]_vars

\* ------------------------------------------------------- UpdateWorker
\* updater.py:38-48: the content of APPVERSION, "v0.0.0" when it is absent
get_current_app_version(mk) == IF mk = None THEN FallbackVersion ELSE mk[1]

\* Mutant of HashMatches: the installed file is never verified.
HashMatchesAlways(current_old_hash, expected_old_hash) == TRUE

\* updater.py:236-237: current_old_hash != expected_old_hash raises
HashMatches(current_old_hash, expected_old_hash) ==
    current_old_hash = expected_old_hash

\* updater.py:242, bsdiff4.file_patch: the delta applied to the content it was
\* made from gives the new content, applied to any other content gives
\* content that is no release's (hash 0).
bsdiff4_file_patch(old_hash, delta) ==
    IF old_hash = delta.old THEN delta.new ELSE 0

\* updater.py:169: [f for f in from_manifest if f not in to_manifest]
FilesToRemove(from_manifest, to_manifest) ==
    DOMAIN from_manifest \ DOMAIN to_manifest

\* updater.py:259: if ".." in relative_path: continue
SkipsDeletion(relative_path) == HasDotDot(relative_path)

\* Mutant of ReportFailure: the failure handler starts the main executable.
ReportFailureRelaunching(message) ==
    /\ finished' = Append(finished, [success |-> FALSE, message |-> message])
    /\ launched' = TRUE
    /\ w_pc' = "done"

\* Mutant of ReportFailure: the run ends without emitting finished.
ReportFailureSilent(message) ==
    /\ finished' = finished
    /\ launched' = launched
    /\ w_pc' = "done"

\* updater.py:130-132: except Exception: finished.emit(False, ...); run ends
ReportFailure(message) ==
    /\ finished' = Append(finished, [success |-> FALSE, message |-> message])
    /\ launched' = launched
    /\ w_pc' = "done"

\* What a step has done so far (observation, not program state).
StepRecord(package_info, zip) ==
    [from_version |-> package_info.from_version,
     to_version |-> package_info.download_from_tag,
     before |-> install,
     expected |-> IF zip.package_manifest.patch = None THEN None
                  ELSE <<zip.package_manifest.patch[1].old_sha256>>,
     found |-> None, deleted |-> {}, written |-> {}]

\* The record of the running step with field changes applied.
Logged(found, deleted, written) ==
    [step_log EXCEPT ![Len(step_log)] =
        [@ EXCEPT !.found = found,
                  !.deleted = @ \cup deleted,
                  !.written = @ \cup written]]

\* updater.py:66-89: pre-checks, manifest load, path resolution
WorkerStart ==
    /\ w_pc = "start"
    /\ IF temp_manifest = None
       THEN /\ ReportFailure("manifest.json not found in temp directory.")
            /\ UNCHANGED <<w_step, latest_version, worker_path>>
       ELSE IF ~install_dir
       THEN /\ ReportFailure("Installation directory not found")
            /\ UNCHANGED <<w_step, latest_version, worker_path>>
       ELSE LET m == temp_manifest[1]
                current_version == get_current_app_version(marker)
                latest == SortedReverseFirst(DOMAIN m.versions)
                path == UpdateWorker_find_update_path(m, current_version, latest)
            IN  IF path = <<>>
                THEN /\ ReportFailure("Could not find an update path")
                     /\ UNCHANGED <<w_step, latest_version, worker_path>>
                ELSE /\ latest_version' = latest
                     /\ worker_path' = path
                     /\ w_step' = 1
                     /\ w_pc' = "step"
                     /\ UNCHANGED <<finished, launched>>
    /\ UNCHANGED <<downloadVars, releaseVars, checkVars, buildVars, processVars, issueVars,
                   harnessVars, handlerVars, installVars, tempVars,
                   step_log>>

\* updater.py:93-162: the loop takes the next package; _apply_single_update
\* finds the archive, extracts it afresh and reads its package manifest
BeginStep ==
    /\ w_pc = "step"
    /\ LET package_info == worker_path[w_step]
       IN  IF package_info.file \notin DOMAIN temp_files
           THEN /\ ReportFailure("Update package not found.")
                /\ UNCHANGED <<extract, step_log>>
           ELSE IF temp_files[package_info.file] # ZipSize(assets[package_info.file])
           THEN /\ ReportFailure("File is not a zip file")
                /\ UNCHANGED <<extract, step_log>>
           ELSE LET zip == assets[package_info.file]
                IN  /\ extract' = <<zip>>
                    /\ step_log' = Append(step_log, StepRecord(package_info, zip))
                    /\ w_pc' = IF zip.package_manifest.patch # None
                               THEN "patch" ELSE "delete"
                    /\ UNCHANGED <<finished, launched>>
    /\ UNCHANGED <<downloadVars, releaseVars, checkVars, buildVars, processVars, issueVars,
                   harnessVars, handlerVars, installVars,
                   temp_exists, temp_manifest, temp_files,
                   w_step, latest_version, worker_path>>

\* Mutant of PatchedCopyAfterFailure: what bsdiff4 wrote stays in place.
PatchedCopyLeft(partial) == partial

\* updater.py:243-245: bsdiff4.file_patch has raised; what it wrote of
\* '<target>.new' (partial), if anything, is removed
PatchedCopyAfterFailure(partial) == None

\* updater.py:220-245: _apply_patch up to the patched copy <target>.new
PatchVerify ==
    /\ w_pc = "patch"
    /\ LET patch_info == extract[1].package_manifest.patch[1]
           target == patch_info.file
       IN  IF target \notin DOMAIN install
           THEN /\ ReportFailure("Cannot patch. Old file not found")
                /\ UNCHANGED <<patched_new, step_log>>
           ELSE IF patch_info.patch_file \notin DOMAIN extract[1].entries
           THEN /\ ReportFailure("Patch file missing from update package")
                /\ UNCHANGED <<patched_new, step_log>>
           ELSE IF ~HashMatches(install[target], patch_info.old_sha256)
           THEN /\ ReportFailure("Version mismatch. Cannot be patched safely.")
                /\ step_log' = Logged(<<install[target]>>, {}, {})
                /\ UNCHANGED patched_new
           ELSE \E patch_ok \in BOOLEAN :
                  /\ step_log' = Logged(<<install[target]>>, {}, {})
                  /\ IF patch_ok
                     THEN /\ patched_new' =
                               <<bsdiff4_file_patch(install[target],
                                     extract[1].entries[patch_info.patch_file])>>
                          /\ w_pc' = "replace"
                          /\ UNCHANGED <<finished, launched>>
                     ELSE /\ ReportFailure("Failed to apply binary patch")
                          /\ patched_new' = PatchedCopyAfterFailure(<<0>>)
    /\ UNCHANGED <<downloadVars, releaseVars, checkVars, buildVars, processVars, issueVars,
                   harnessVars, handlerVars, install, marker,
                   tempVars, w_step, latest_version, worker_path>>

\* The executable of a process that has not ended cannot be replaced or
\* written (the updater is built as Updater.exe, update.py:316): the
\* operation raises PermissionError.
Locked(relative_path) == ~main_exited /\ relative_path = MAIN_APP_EXE

\* updater.py:247-252: the patched copy replaces the target; the patch file
\* and an unpatched copy of the target leave the extraction directory.  When
\* os.replace raises, the exception reaches the handler of run and the
\* patched copy stays where it is.
PatchReplace ==
    /\ w_pc = "replace"
    /\ LET patch_info == extract[1].package_manifest.patch[1]
           target == patch_info.file
           kept == DOMAIN extract[1].entries \ {patch_info.patch_file, target}
       IN  IF Locked(target)
           THEN /\ ReportFailure("Permission denied")
                /\ UNCHANGED <<install, patched_new, extract, step_log>>
           ELSE /\ install' = [install EXCEPT ![target] = patched_new[1]]
                /\ patched_new' = None
                /\ extract' = <<[extract[1] EXCEPT
                                   !.entries = [f \in kept |-> extract[1].entries[f]]]>>
                /\ step_log' = Logged(step_log[Len(step_log)].found, {}, {target})
                /\ w_pc' = "delete"
                /\ UNCHANGED <<finished, launched>>
    /\ UNCHANGED <<downloadVars, releaseVars, checkVars, buildVars, processVars, issueVars,
                   harnessVars, handlerVars, marker,
                   temp_exists, temp_manifest, temp_files,
                   w_step, latest_version, worker_path>>

\* updater.py:164-170 and 255-265: the files of the from-manifest that the
\* to-manifest lacks are removed; a path containing ".." is passed over, and
\* a removal that raises OSError (failed) is reported and passed over
DeleteOldFiles ==
    /\ w_pc = "delete"
    /\ LET package_info == worker_path[w_step]
           m == temp_manifest[1]
           files_to_remove ==
               FilesToRemove(m.versions[package_info.from_version],
                             m.versions[package_info.download_from_tag])
           attempted == { f \in files_to_remove :
                            ~SkipsDeletion(f) /\ f \in DOMAIN install }
       IN  \E failed \in SUBSET attempted :
             /\ install' = [f \in DOMAIN install \ (attempted \ failed) |-> install[f]]
             /\ step_log' = Logged(step_log[Len(step_log)].found,
                                   attempted \ failed, {})
    /\ w_pc' = "copy"
    /\ UNCHANGED <<downloadVars, releaseVars, checkVars, buildVars, processVars, issueVars,
                   harnessVars, handlerVars, patched_new, marker,
                   tempVars, w_step, latest_version, worker_path, finished,
                   launched>>

\* updater.py:173 and 267-279: every file left in the extraction directory
\* (but package-manifest.json) moves into the install directory; then the
\* loop of run (updater.py:93) goes to the next package or leaves.  When
\* shutil.move raises for a file (permission denied, or the file is Locked),
\* the files walked before it have moved (moved), and the exception is on
\* its way to the handler of run.
CopyNewFiles ==
    /\ w_pc = "copy"
    /\ LET entries == extract[1].entries
           left == DOMAIN entries
       IN  \E moved \in SUBSET left :
             /\ \A f \in moved : ~Locked(f)
             /\ install' = [f \in DOMAIN install \cup moved |->
                              IF f \in moved
                              THEN (IF entries[f].kind = "file"
                                    THEN entries[f].hash ELSE 0)
                              ELSE install[f]]
             /\ extract' = <<[extract[1] EXCEPT
                                !.entries = [f \in left \ moved |-> entries[f]]]>>
             /\ step_log' = Logged(step_log[Len(step_log)].found, {}, moved)
             /\ IF moved # left
                THEN w_step' = w_step /\ w_pc' = "raised"
                ELSE IF w_step < Len(worker_path)
                THEN w_step' = w_step + 1 /\ w_pc' = "step"
                ELSE w_step' = w_step /\ w_pc' = "finalize"
    /\ UNCHANGED <<downloadVars, releaseVars, checkVars, buildVars, processVars, issueVars,
                   harnessVars, handlerVars, patched_new, marker,
                   temp_exists, temp_manifest, temp_files,
                   latest_version, worker_path, finished, launched>>

\* updater.py:130-132: the exception raised by shutil.move in
\* _copy_new_files is caught by the handler of run
CopyDenied ==
    /\ w_pc = "raised"
    /\ ReportFailure("Permission denied")
    /\ UNCHANGED <<downloadVars, releaseVars, checkVars, buildVars, processVars, issueVars,
                   harnessVars, handlerVars, installVars, tempVars,
                   w_step, latest_version, worker_path, step_log>>

\* updater.py:102-109: latest_version is written to APPVERSION; an OSError
\* there is printed and the run goes on
WriteVersion ==
    /\ w_pc = "finalize"
    /\ \E written \in BOOLEAN :
         marker' = IF written THEN <<latest_version>> ELSE marker
    /\ w_pc' = "cleanup"
    /\ UNCHANGED <<downloadVars, releaseVars, checkVars, buildVars, processVars, issueVars,
                   harnessVars, handlerVars, install, patched_new,
                   tempVars, w_step, latest_version, worker_path, finished,
                   launched, step_log>>

\* updater.py:111-118: shutil.rmtree(self.temp_dir, ignore_errors=True)
CleanUp ==
    /\ w_pc = "cleanup"
    /\ temp_exists' = FALSE
    /\ temp_manifest' = None
    /\ temp_files' = NoFiles
    /\ extract' = None
    /\ w_pc' = "relaunch"
    /\ UNCHANGED <<downloadVars, releaseVars, checkVars, buildVars, processVars, issueVars,
                   harnessVars, handlerVars, installVars,
                   w_step, latest_version, worker_path, finished, launched,
                   step_log>>

\* updater.py:120-128: the main executable is started and success reported,
\* or, the executable missing, FileNotFoundError reaches the handler
Relaunch ==
    /\ w_pc = "relaunch"
    /\ IF MAIN_APP_EXE \in DOMAIN install
       THEN /\ launched' = TRUE
            /\ finished' = Append(finished, [success |-> TRUE,
                                             message |-> "Update successful!"])
            /\ w_pc' = "done"
       ELSE ReportFailure("Could not find main executable to relaunch")
    /\ UNCHANGED <<downloadVars, releaseVars, checkVars, buildVars, processVars, issueVars,
                   harnessVars, handlerVars, installVars, tempVars,
                   w_step, latest_version, worker_path, step_log>>

\* ------------------------------------------------------------ apply runs
\* What the updater may find when it starts: the temp directory as a
\* download session left it and the install directory of the running
\* version (none), or one of: the installed executable modified or missing,
\* manifest.json missing, the first or the last package of the chain missing,
\* the install directory named on the command line missing.
ApplyFaults == {"none", "exe modified", "exe missing", "no manifest",
                "first package missing", "last package missing",
                "no install dir"}

\* The install directory of a version under a fault.
InstallOf(files, fault) ==
    CASE fault = "exe modified" -> [files EXCEPT ![MAIN_APP_EXE] = 0]
      [] fault = "exe missing" -> [f \in DOMAIN files \ {MAIN_APP_EXE} |-> files[f]]
      [] fault = "no install dir" -> NoFiles
      [] OTHER -> files

\* The package files a download session of update_path left, under a fault.
DownloadedFiles(path, fault) ==
    LET missing == CASE fault = "first package missing" /\ path # <<>> ->
                            {path[1].file}
                     [] fault = "last package missing" /\ path # <<>> ->
                            {path[Len(path)].file}
                     [] OTHER -> {}
    IN  [f \in { path[i].file : i \in 1..Len(path) } \ missing |->
            path[CHOOSE i \in 1..Len(path) : path[i].file = f].size]

InitApply ==
    /\ \E fm \in ApplyFileManifests, hop \in BOOLEAN, have_old_exe \in BOOLEAN :
         LET built == BuiltFor(fm, hop, have_old_exe)
         IN  /\ manifest = MasterManifest(fm, built)
             /\ assets = ReleaseAssets(built)
    /\ tag_name = NewestRelease(manifest)
    /\ marker \in {None} \cup { <<v>> : v \in ApplyVersions }
    /\ app_version = get_current_app_version(marker)
    /\ update_path = UpdateHandler_find_update_path(manifest, app_version, tag_name)
    /\ \E fault \in ApplyFaults :
         /\ install_dir = (fault # "no install dir")
         /\ previous_run = None
         /\ fault = "no install dir" => marker = None
         /\ install = InstallOf(manifest.versions[IF marker = None THEN 1
                                                  ELSE marker[1]], fault)
         /\ temp_manifest = IF fault = "no manifest" THEN None ELSE <<manifest>>
         /\ temp_files = DownloadedFiles(update_path, fault)
    /\ temp_exists = TRUE
    /\ patched_new = None
    /\ extract = None
    /\ HarnessUnused
    /\ WorkerNotStarted
    /\ CheckUnused
    /\ BuildUnused
    /\ IssueUnused
    /\ HandlerIdle
    /\ MainAppGone

NextApply ==
    \/ WorkerStart
    \/ BeginStep
    \/ PatchVerify
    \/ PatchReplace
    \/ DeleteOldFiles
    \/ CopyNewFiles
    \/ CopyDenied
    \/ WriteVersion
    \/ CleanUp
    \/ Relaunch

SpecApply == InitApply /\ [][NextApply]_vars

\* updater.py:325-344: Updater.exe is started once more with the same temp
\* data directory and install directory after a run that reported failure;
\* UpdaterWindow creates a new worker (updater.py:303-308).
RunAgain ==
    /\ w_pc = "done"
    /\ finished # <<>> /\ ~finished[Len(finished)].success
    /\ previous_run = None
    /\ previous_run' = <<[install |-> install, patched_new |-> patched_new]>>
    /\ w_pc' = "start"
    /\ w_step' = 0
    /\ latest_version' = None
    /\ worker_path' = <<>>
    /\ UNCHANGED <<downloadVars, releaseVars, checkVars, buildVars, issueVars,
                   harnessVars, handlerVars, installVars, tempVars,
                   install_dir, main_exited, finished, launched, step_log>>

\* A run of the updater and, after a failure, a second run.
NextRerun ==
    \/ WorkerStart
    \/ BeginStep
    \/ PatchVerify
    \/ PatchReplace
    \/ DeleteOldFiles
    \/ CopyNewFiles
    \/ CopyDenied
    \/ WriteVersion
    \/ CleanUp
    \/ Relaunch
    \/ RunAgain

SpecRerun == InitApply /\ [][NextRerun]_vars

\* ------------------------------------------------------- UpdateHandler
\* self.update_temp_dir (update.py:51)
UpdateTempDir == "update_package"

\* signals.emit: the signals emitted so far followed by more.
Emit(more) == signals \o more

\* max(a, b)
Max(a, b) == IF a >= b THEN a ELSE b

\* No worker thread of a session is running.
AllIdle == \A t \in Sessions : h_pc[t] \in {"unstarted", "ended"}

\* The files that threads other than t hold open for writing (between the
\* open and the end of the with block of _run_download_file).
OpenElsewhere(t) ==
    { current[u][1].file : u \in { v \in Sessions \ {t} :
                                     h_pc[v] = "stream" /\ handle[v].linked } }

\* The handles after the directory's files were unlinked: an open file is no
\* longer the file under its path.
Unlinked == [u \in Sessions |-> [handle[u] EXCEPT !.linked = FALSE]]

\* The bytes the files of a directory hold together.
RECURSIVE SumBytes(_)
SumBytes(files) ==
    IF DOMAIN files = {} THEN 0
    ELSE LET f == CHOOSE x \in DOMAIN files : TRUE
         IN  files[f] + SumBytes([g \in DOMAIN files \ {f} |-> files[g]])

\* Mutant of ReceivedAtStart: the bytes found on disk are counted.
ReceivedCountingLeftover == SumBytes(temp_files)

\* update.py:236: total_bytes_received when a session starts
ReceivedAtStart == 0

\* Mutant of RecreatedTempFiles: the old directory's files stay.
RecreatedKeepingFiles(files) == files

\* update.py:224-227: rmtree of the old update directory and makedirs; what
\* the recreated directory holds of the files the old one held
RecreatedTempFiles(files) == NoFiles

\* The package files of path that the temp directory holds with exactly
\* their expected size.
CompleteFiles(path, files) ==
    { f \in DOMAIN files :
        \E i \in 1..Len(path) : path[i].file = f /\ files[f] = path[i].size }

\* The package files of path that the temp directory holds with fewer bytes
\* than expected but not none, with the bytes they hold.
PartialFiles(path, files) ==
    LET partial == { f \in DOMAIN files :
                       \E i \in 1..Len(path) :
                          path[i].file = f /\ 0 < files[f] /\ files[f] < path[i].size }
    IN  [f \in partial |-> files[f]]

\* Mutant of cleanup_after_failure: the directory is left as it is.
cleanup_keeping_directory(t) ==
    /\ UNCHANGED <<temp_exists, temp_manifest, temp_files>>
    /\ handle' = [handle EXCEPT ![t] = NoHandle]
    /\ downloaded_files' = <<>>

\* update.py:292-296: rmtree(update_temp_dir, ignore_errors=True) and
\* downloaded_files = [].  With a file of the directory open in another
\* thread the build decides: the file is unlinked all the same, or it cannot
\* be removed and stays with the directory (sharing violation, ignored).
cleanup_after_failure(t) ==
    /\ downloaded_files' = <<>>
    /\ IF ~temp_exists
       THEN /\ UNCHANGED <<temp_exists, temp_manifest, temp_files>>
            /\ handle' = [handle EXCEPT ![t] = NoHandle]
       ELSE \E sharing_violation \in { FALSE, OpenElsewhere(t) # {} } :
              IF sharing_violation
              THEN /\ temp_exists' = TRUE
                   /\ temp_manifest' = None
                   /\ temp_files' = [f \in DOMAIN temp_files \cap OpenElsewhere(t) |->
                                        temp_files[f]]
                   /\ handle' = [handle EXCEPT ![t] = NoHandle]
              ELSE /\ temp_exists' = FALSE
                   /\ temp_manifest' = None
                   /\ temp_files' = NoFiles
                   /\ handle' = [Unlinked EXCEPT ![t] = NoHandle]

\* update.py:283-290: both handlers of _run_download_file
FetchFailure(t, message) ==
    /\ signals' = Emit(<< <<"error_occurred", message>>,
                          <<"download_finished", FALSE, "">> >>)
    /\ cleanup_after_failure(t)
    /\ session_log' = [session_log EXCEPT ![t].fetch_failed = TRUE]
    /\ current' = [current EXCEPT ![t] = None]
    /\ h_pc' = [h_pc EXCEPT ![t] = "ended"]

\* update.py:113-122: called by the "Download Update" button
\* (settings_dialog.py:80), which stays enabled until the first
\* download_progress arrives (settings_dialog.py:204-205)
DownloadManifestAndStartUpdate ==
    /\ app_running
    /\ sessions < MaxSessions
    /\ sessions' = sessions + 1
    /\ session_log' = [session_log EXCEPT ![sessions + 1] = NewSession]
    /\ IF latest_release_data = None
       THEN /\ signals' = Emit(<< <<"error_occurred", "Update check has not been run">>,
                                  <<"download_finished", FALSE, "">> >>)
            /\ h_pc' = [h_pc EXCEPT ![sessions + 1] = "ended"]
       ELSE /\ h_pc' = [h_pc EXCEPT ![sessions + 1] = "manifest"]
            /\ UNCHANGED signals
    /\ UNCHANGED <<releaseVars, checkVars, buildVars, processVars, issueVars,
                   harnessVars, handlerVars, installVars, tempVars,
                   workerVars, latest_release_data, manifest_data, download_queue,
                   current, handle, downloaded_files, total_download_size,
                   total_bytes_received, settings, app_running>>

\* Mutant of NoViablePathSignals: the session is reported as downloaded.
NoViablePathReportedDone ==
    << <<"status_changed", "Downloading update information...">>,
       <<"download_finished", TRUE, UpdateTempDir>> >>

\* update.py:162-165: what _process_manifest emits for an empty path
NoViablePathSignals ==
    << <<"status_changed", "Downloading update information...">>,
       <<"error_occurred", "no viable update path">>,
       <<"download_finished", FALSE, "">> >>

\* update.py:124-151, the thread of download_manifest_and_start_update, with
\* _process_manifest (153-172), start_update_download (218-239) and the first
\* _start_next_download (241-253) it runs into.  rmtree of a directory in
\* which another thread holds a file open either unlinks everything or
\* raises (sharing violation) with part of the entries removed; nothing
\* handles that exception and the thread ends.  The same when
\* latest_release_data is None by the time the thread reads it (line 126:
\* None has no attribute get).
RunDownloadManifest(t) ==
    /\ app_running
    /\ h_pc[t] = "manifest"
    /\ IF latest_release_data = None
       THEN /\ h_pc' = [h_pc EXCEPT ![t] = "ended"]
            /\ UNCHANGED <<signals, manifest_data, update_path, tempVars,
                           download_queue, current, handle, downloaded_files,
                           total_download_size, total_bytes_received, session_log>>
       ELSE IF ~latest_release_data[1].manifest_asset
       THEN /\ signals' = Emit(<< <<"error_occurred", "manifest.json not in assets">>,
                                  <<"download_finished", FALSE, "">> >>)
            /\ h_pc' = [h_pc EXCEPT ![t] = "ended"]
            /\ UNCHANGED <<manifest_data, update_path, tempVars, download_queue,
                           current, handle, downloaded_files, total_download_size,
                           total_bytes_received, session_log>>
       ELSE \E outcome \in {"ok", "request failed", "bad json"} :
            IF outcome # "ok"
            THEN /\ signals' = Emit(<< <<"status_changed", "Downloading update information...">>,
                                       <<"error_occurred", outcome>>,
                                       <<"download_finished", FALSE, "">> >>)
                 /\ h_pc' = [h_pc EXCEPT ![t] = "ended"]
                 /\ UNCHANGED <<manifest_data, update_path, tempVars, download_queue,
                                current, handle, downloaded_files, total_download_size,
                                total_bytes_received, session_log>>
            ELSE LET path == UpdateHandler_find_update_path(
                                 manifest, app_version, latest_release_data[1].tag_name)
                 IN  /\ manifest_data' = <<manifest>>
                     /\ update_path' = path
                     /\ IF path = <<>>
                        THEN /\ signals' = Emit(NoViablePathSignals)
                             /\ h_pc' = [h_pc EXCEPT ![t] = "ended"]
                             /\ session_log' = [session_log EXCEPT
                                    ![t].no_path = TRUE,
                                    ![t].disk_before =
                                        <<temp_exists, temp_manifest, temp_files>>]
                             /\ UNCHANGED <<tempVars, download_queue, current, handle,
                                            downloaded_files, total_download_size,
                                            total_bytes_received>>
                        ELSE \E sharing_violation \in { FALSE, OpenElsewhere(t) # {} } :
                             /\ signals' = Emit(<< <<"status_changed", "Downloading update information...">> >>)
                             /\ extract' = None
                             /\ IF sharing_violation
                                THEN /\ \E kept \in SUBSET (DOMAIN temp_files \ OpenElsewhere(t)),
                                           manifest_kept \in BOOLEAN :
                                         /\ temp_files' = [f \in (DOMAIN temp_files \cap OpenElsewhere(t))
                                                                 \cup kept |-> temp_files[f]]
                                         /\ temp_manifest' = IF manifest_kept THEN temp_manifest
                                                             ELSE None
                                     /\ h_pc' = [h_pc EXCEPT ![t] = "ended"]
                                     /\ UNCHANGED <<temp_exists, download_queue, current,
                                                    handle, downloaded_files,
                                                    total_download_size,
                                                    total_bytes_received, session_log>>
                                ELSE /\ session_log' = [session_log EXCEPT
                                          ![t].present_at_start = CompleteFiles(path, temp_files),
                                          ![t].partial_at_start = PartialFiles(path, temp_files),
                                          ![t].path = path]
                                     /\ temp_exists' = TRUE
                                     /\ temp_files' = RecreatedTempFiles(temp_files)
                                     /\ temp_manifest' = <<manifest>>
                                     /\ handle' = Unlinked
                                     /\ download_queue' = Tail(path)
                                     /\ current' = [current EXCEPT ![t] = <<Head(path)>>]
                                     /\ downloaded_files' = <<>>
                                     /\ total_download_size' = SumSizes(path)
                                     /\ total_bytes_received' = ReceivedAtStart
                                     /\ h_pc' = [h_pc EXCEPT ![t] = "fetch"]
    /\ UNCHANGED <<releaseVars, checkVars, buildVars, processVars, issueVars,
                   harnessVars, app_version, installVars, workerVars,
                   latest_release_data, settings, app_running, sessions>>

\* update.py:255-267: the thread of one package: the request is sent (no
\* Range header) and the file opened for writing ('wb': from the first byte);
\* RequestException and IOError go to the handlers (283-290).  The open
\* fails when the directory is gone.
FetchOpen(t) ==
    /\ app_running
    /\ h_pc[t] = "fetch"
    /\ LET package == current[t][1]
           status == << <<"status_changed", "Downloading", package.file>> >>
       IN  \E outcome \in {"ok", "request failed", "io error"} :
             /\ ~temp_exists => outcome # "ok"
             /\ session_log' = [session_log EXCEPT
                    ![t].requests = Append(@, [file |-> package.file, from_byte |-> 0]),
                    ![t].fetch_failed = (outcome # "ok")]
             /\ IF outcome = "ok"
                THEN /\ signals' = Emit(status)
                     /\ temp_files' = [f \in DOMAIN temp_files \cup {package.file} |->
                                         IF f = package.file THEN 0 ELSE temp_files[f]]
                     /\ handle' = [handle EXCEPT ![t] = [pos |-> 0, linked |-> TRUE]]
                     /\ h_pc' = [h_pc EXCEPT ![t] = "stream"]
                     /\ UNCHANGED <<temp_exists, temp_manifest, current, downloaded_files>>
                ELSE /\ signals' = Emit(status \o << <<"error_occurred", outcome>>,
                                                    <<"download_finished", FALSE, "">> >>)
                     /\ cleanup_after_failure(t)
                     /\ current' = [current EXCEPT ![t] = None]
                     /\ h_pc' = [h_pc EXCEPT ![t] = "ended"]
    /\ UNCHANGED <<releaseVars, checkVars, buildVars, processVars, issueVars,
                   harnessVars, handlerVars, installVars, extract,
                   workerVars, latest_release_data, manifest_data, download_queue,
                   total_download_size, total_bytes_received, settings,
                   app_running, sessions>>

\* update.py:268-273: one chunk is written at the position of the open file
\* and download_progress emitted, or the stream or the write fails
FetchChunk(t) ==
    /\ app_running
    /\ h_pc[t] = "stream"
    /\ LET package == current[t][1]
       IN  /\ handle[t].pos < package.size
           /\ \E outcome \in {"ok", "request failed", "io error"} :
                IF outcome = "ok"
                THEN /\ temp_files' =
                          IF handle[t].linked /\ package.file \in DOMAIN temp_files
                          THEN [temp_files EXCEPT ![package.file] =
                                    Max(@, handle[t].pos + 1)]
                          ELSE temp_files
                     /\ handle' = [handle EXCEPT ![t].pos = @ + 1]
                     /\ total_bytes_received' = total_bytes_received + 1
                     /\ signals' = Emit(<< <<"download_progress",
                                             total_bytes_received + 1,
                                             total_download_size>> >>)
                     /\ session_log' = [session_log EXCEPT
                            ![t].written = @ + 1,
                            ![t].progress = Append(@, <<total_bytes_received + 1,
                                                        total_download_size>>)]
                     /\ UNCHANGED <<temp_exists, temp_manifest, current,
                                    downloaded_files, h_pc>>
                ELSE /\ FetchFailure(t, outcome)
                     /\ UNCHANGED total_bytes_received
    /\ UNCHANGED <<releaseVars, checkVars, buildVars, processVars, issueVars,
                   harnessVars, handlerVars, installVars, extract,
                   workerVars, latest_release_data, manifest_data, download_queue,
                   total_download_size, settings, app_running, sessions>>

\* update.py:275-281 and 241-253: the response is exhausted and the file
\* closed; os.path.getsize raises when the file is no longer there (IOError
\* handler, 287-290); else the next package of the queue is taken, or, the
\* queue empty, the setting is stored and download_finished(True, dir) emitted
FetchComplete(t) ==
    /\ app_running
    /\ h_pc[t] = "stream"
    /\ LET package == current[t][1]
       IN  /\ handle[t].pos = package.size
           /\ IF package.file \notin DOMAIN temp_files
              THEN /\ FetchFailure(t, "io error")
                   /\ UNCHANGED <<download_queue, settings>>
              ELSE /\ downloaded_files' = Append(downloaded_files, package.file)
                   /\ handle' = [handle EXCEPT ![t] = NoHandle]
                   /\ IF download_queue = <<>>
                      THEN /\ signals' = Emit(<< <<"status_changed", "All updates downloaded. Ready to install.">>,
                                                 <<"download_finished", TRUE, UpdateTempDir>> >>)
                           /\ settings' = <<UpdateTempDir>>
                           /\ current' = [current EXCEPT ![t] = None]
                           /\ h_pc' = [h_pc EXCEPT ![t] = "ended"]
                           /\ UNCHANGED download_queue
                      ELSE /\ current' = [current EXCEPT ![t] = <<Head(download_queue)>>]
                           /\ download_queue' = Tail(download_queue)
                           /\ h_pc' = [h_pc EXCEPT ![t] = "fetch"]
                           /\ UNCHANGED <<signals, settings>>
                   /\ UNCHANGED <<temp_exists, temp_manifest, temp_files, session_log>>
    /\ UNCHANGED <<releaseVars, checkVars, buildVars, processVars, issueVars,
                   harnessVars, handlerVars, installVars, extract,
                   workerVars, latest_release_data, manifest_data,
                   total_download_size, total_bytes_received, app_running,
                   sessions>>

\* update.py:302-310: the directory of a finished download, None otherwise
check_for_existing_download ==
    IF settings # None /\ temp_manifest # None THEN settings ELSE None

\* update.py:312-334, called by "Restart & Update" (settings_dialog.py:85,
\* 225-226) with the directory of the session the setting names: the updater
\* is missing, or the directory is, or the updater is started detached (its
\* worker thread is started by UpdaterWindow, updater.py:303-308) and the
\* application is told to quit, or starting it fails
ApplyUpdate ==
    /\ app_running
    /\ settings # None
    /\ \E outcome \in {"no updater", "no update dir", "started", "not started"} :
         /\ outcome = "no update dir" => ~temp_exists
         /\ outcome \in {"started", "not started"} => temp_exists
         \* a repeated attempt that returns early only repeats the same signal
         /\ outcome \in {"no updater", "no update dir"} =>
                \A i \in 1..Len(signals) : signals[i] # <<"error_occurred", outcome>>
         /\ settings' = IF outcome \in {"no updater", "no update dir"}
                        THEN settings ELSE None
         /\ app_running' = (outcome # "started")
         /\ signals' = IF outcome = "started" THEN signals
                       ELSE Emit(<< <<"error_occurred", outcome>> >>)
         /\ w_pc' = IF outcome = "started" THEN "start" ELSE w_pc
    /\ UNCHANGED <<releaseVars, checkVars, buildVars, processVars, issueVars,
                   harnessVars, handlerVars, installVars, tempVars,
                   w_step, latest_version, worker_path, finished, launched,
                   step_log, h_pc, latest_release_data, manifest_data,
                   download_queue, current, handle, downloaded_files,
                   total_download_size, total_bytes_received, sessions,
                   session_log>>

\* ------------------------------------------------------- download sessions
\* The manifests of three releases v1, v2, v3 with their direct packages and
\* a package from v1 to v3 or none, of every size.
DownloadManifests ==
    { GraphManifest(<<1, 2, 3>>, g) : g \in { x \in GraphShapes(3) : x.back = 0 } }

\* What an earlier run of the application, ended while a session was
\* running, left behind: no directory; or the directory with manifest.json,
\* ended before the first byte of the first package of path was written
\* (bytes 0) or after its first n bytes were.
LeftoverOptions(path) ==
    { [dir |-> FALSE, bytes |-> 0], [dir |-> TRUE, bytes |-> 0] }
    \cup { [dir |-> TRUE, bytes |-> n] :
             n \in { k \in 1..MaxSize : path # <<>> /\ k < path[1].size } }

\* An update check has found the latest release (with or without a
\* manifest.json asset), or none has: latest_release_data is None.  The temp
\* directory is absent, or as an interrupted earlier run left it.
InitDownload ==
    /\ manifest \in DownloadManifests
    /\ tag_name = NewestRelease(manifest)
    /\ assets = NoFiles
    /\ app_version \in {FallbackVersion, 1, 2}
    /\ update_path = <<>>
    /\ latest_release_data \in
         {None} \cup { <<[tag_name |-> tag_name, manifest_asset |-> b]>> :
                         b \in BOOLEAN }
    /\ NoSessions
    /\ manifest_data = None
    /\ download_queue = <<>>
    /\ downloaded_files = <<>>
    /\ total_download_size = 0
    /\ total_bytes_received = 0
    /\ settings = None
    /\ signals = <<>>
    /\ MainAppRunning
    /\ install_dir = TRUE
    /\ previous_run = None
    /\ LET path == UpdateHandler_find_update_path(manifest, app_version, tag_name)
       IN  \E left \in LeftoverOptions(path) :
             /\ temp_exists = left.dir
             /\ temp_manifest = IF left.dir THEN <<manifest>> ELSE None
             /\ temp_files = IF left.bytes > 0 THEN [f \in {path[1].file} |-> left.bytes]
                             ELSE NoFiles
    /\ install = NoFiles
    /\ patched_new = None
    /\ marker = None
    /\ extract = None
    /\ HarnessUnused
    /\ WorkerNotStarted
    /\ CheckUnused
    /\ BuildUnused
    /\ IssueUnused

\* Sessions one after another: the button is pressed, and the update
\* applied, only while no session is running.
NextDownload ==
    \/ AllIdle /\ DownloadManifestAndStartUpdate
    \/ \E t \in Sessions : RunDownloadManifest(t)
    \/ \E t \in Sessions : FetchOpen(t)
    \/ \E t \in Sessions : FetchChunk(t)
    \/ \E t \in Sessions : FetchComplete(t)
    \/ AllIdle /\ ApplyUpdate

SpecDownload == InitDownload /\ [][NextDownload]_vars

\* settings_dialog.py:204-223: the "Download Update" button can be pressed
\* unless the last of the signals that change it disabled it
\* (download_progress) or hid it (download_finished(True, ...)); an error or
\* download_finished(False, "") enables it.  Signals count as delivered when
\* they are emitted.
DownloadButtonUsable ==
    LET changing == { i \in 1..Len(signals) :
                        signals[i][1] \in {"download_progress", "download_finished",
                                           "error_occurred"} }
        IsMax(i) == \A j \in changing : j <= i
    IN  \A i \in changing :
           IsMax(i) => \/ signals[i][1] = "error_occurred"
                       \/ signals[i][1] = "download_finished" /\ ~signals[i][2]

\* Sessions as the dialog admits them: the button may be pressed again
\* while a session is running, until the first download_progress arrives.
NextOverlap ==
    \/ DownloadButtonUsable /\ DownloadManifestAndStartUpdate
    \/ \E t \in Sessions : RunDownloadManifest(t)
    \/ \E t \in Sessions : FetchOpen(t)
    \/ \E t \in Sessions : FetchChunk(t)
    \/ \E t \in Sessions : FetchComplete(t)
    \/ ApplyUpdate

\* Overlapping sessions are followed on the manifests without a package from
\* v1 to v3 whose packages have at most 2 bytes, after a check that found the
\* release, with no leftover of an earlier run.
InitOverlap ==
    /\ InitDownload
    /\ \A v \in DOMAIN manifest.packages :
          \A i \in 1..Len(manifest.packages[v]) :
             /\ manifest.packages[v][i].type = "direct"
             /\ manifest.packages[v][i].size <= 2
    /\ app_version \in DOMAIN manifest.versions
    /\ latest_release_data # None
    /\ latest_release_data[1].manifest_asset
    /\ ~temp_exists

SpecOverlap == InitOverlap /\ [][NextOverlap]_vars

\* ------------------------------------------------- handoff to the updater
\* main.py:552, sys.exit(app.exec()): after QCoreApplication.quit() the event
\* loop returns and the process of the main application ends.
MainExit ==
    /\ ~app_running
    /\ ~main_exited
    /\ main_exited' = TRUE
    /\ UNCHANGED <<install_dir, previous_run, issueVars, releaseVars, checkVars, buildVars, harnessVars,
                   handlerVars, installVars, tempVars, workerVars, downloadVars>>

\* A download session has ended well: the temp directory holds manifest.json
\* and the packages of update_path, 'downloaded_update_dir' names it, and the
\* main application runs from the install directory of its version.  The
\* updater has not been launched.
InitHandoff ==
    /\ \E fm \in ApplyFileManifests, hop \in BOOLEAN, have_old_exe \in BOOLEAN :
         LET built == BuiltFor(fm, hop, have_old_exe)
         IN  /\ manifest = MasterManifest(fm, built)
             /\ assets = ReleaseAssets(built)
    /\ tag_name = NewestRelease(manifest)
    /\ marker \in { <<v>> : v \in ApplyVersions }
    /\ app_version = get_current_app_version(marker)
    /\ update_path = UpdateHandler_find_update_path(manifest, app_version, tag_name)
    /\ update_path # <<>>
    /\ install_dir = TRUE
    /\ previous_run = None
    /\ install = manifest.versions[marker[1]]
    /\ temp_manifest = <<manifest>>
    /\ temp_files = DownloadedFiles(update_path, "none")
    /\ temp_exists = TRUE
    /\ patched_new = None
    /\ extract = None
    /\ HarnessUnused
    /\ w_pc = "unlaunched"
    /\ w_step = 0
    /\ latest_version = None
    /\ worker_path = <<>>
    /\ finished = <<>>
    /\ launched = FALSE
    /\ step_log = <<>>
    /\ CheckUnused
    /\ BuildUnused
    /\ IssueUnused
    /\ NoSessions
    /\ latest_release_data = None
    /\ manifest_data = None
    /\ download_queue = <<>>
    /\ downloaded_files = <<>>
    /\ total_download_size = 0
    /\ total_bytes_received = 0
    /\ settings = <<UpdateTempDir>>
    /\ signals = <<>>
    /\ MainAppRunning

\* The main application hands over to the updater: the two processes run
\* side by side from the launch of the updater on.
NextHandoff ==
    \/ ApplyUpdate
    \/ MainExit
    \/ WorkerStart
    \/ BeginStep
    \/ PatchVerify
    \/ PatchReplace
    \/ DeleteOldFiles
    \/ CopyNewFiles
    \/ CopyDenied
    \/ WriteVersion
    \/ CleanUp
    \/ Relaunch

SpecHandoff == InitHandoff /\ [][NextHandoff]_vars

\* ----------------------------------------------------------- update check
\* The tags a release found by the check may carry.
CheckTags == {2, 3, 10}

\* What session.get(api_url) returns: a bad status, a body that is no JSON,
\* or the list of releases (empty, or the latest release with or without a
\* tag_name).
CheckResponses ==
    { [status_ok |-> FALSE, json_ok |-> TRUE, releases |-> <<>>],
      [status_ok |-> TRUE, json_ok |-> FALSE, releases |-> <<>>] }
    \cup { [status_ok |-> TRUE, json_ok |-> TRUE, releases |-> r] :
             r \in {<<>>} \cup { <<[tag_name |-> t]>> :
                                   t \in {None} \cup { <<v>> : v \in CheckTags } } }

\* Mutant of Aborted: the flag is never seen as set.
NeverAborted == FALSE

\* update.py:73-109: if self._abort_check_flag
Aborted == abort_check_flag

\* Mutant of TimerActive: the timer always counts as active.
TimerActiveAlways == TRUE

\* home_window.py:301 and 325: self.update_check_timer.isActive()
TimerActive == timer = "running"

\* home_window.py:290-291: the slots of Home; status_changed has none
HomeSlots(s) == IF s[1] \in {"update_check_finished", "error_occurred"} THEN <<s>> ELSE <<>>

\* update.py:104-111: the except clauses of _run_check_for_updates
CheckException(message) ==
    /\ c_pc' = IF Aborted THEN "done" ELSE "emit"
    /\ c_emit' = IF Aborted THEN <<>>
                 ELSE << <<"error_occurred", message>>,
                         <<"update_check_finished", FALSE, None>> >>
    /\ c_resp' = None

\* update.py:73, 76, 79, 88: if self._abort_check_flag: return
CheckGoesOn(next_pc) ==
    /\ c_pc' = IF Aborted THEN "done" ELSE next_pc
    /\ c_resp' = IF Aborted THEN None ELSE c_resp
    /\ c_emit' = <<>>

\* home_window.py:282-297: check_for_updates_on_startup, with
\* check_for_updates (update.py:58-66)
CheckForUpdatesOnStartup ==
    /\ c_pc = "idle" /\ timer = "unset"
    /\ timer' = "running"
    /\ signals' = Emit(<< <<"status_changed", "Checking for updates...">> >>)
    /\ latest_release_data' = None
    /\ abort_check_flag' = FALSE
    /\ c_pc' = "get"
    /\ UNCHANGED <<releaseVars, buildVars, processVars, issueVars, harnessVars, handlerVars, installVars,
                   tempVars, workerVars, h_pc, manifest_data, download_queue,
                   current, handle, downloaded_files, total_download_size,
                   total_bytes_received, settings, app_running, sessions,
                   session_log, c_resp, c_emit, handler_deleted, event_queue,
                   home_log, abort_at, c_old>>

\* update.py:72-73: session.get returns a response or raises
GetReturns ==
    /\ c_pc = "get"
    /\ \E r \in {None} \cup { <<x>> : x \in CheckResponses } :
         IF r = None
         THEN CheckException("Could not check for updates")
         ELSE /\ c_pc' = IF Aborted THEN "done" ELSE "status"
              /\ c_resp' = IF Aborted THEN None ELSE r
              /\ c_emit' = <<>>
    /\ UNCHANGED <<releaseVars, buildVars, processVars, issueVars, harnessVars, handlerVars, installVars,
                   tempVars, workerVars, downloadVars, abort_check_flag,
                   handler_deleted, timer, event_queue, home_log, abort_at, c_old>>

\* update.py:75-76: response.raise_for_status()
RaiseForStatus ==
    /\ c_pc = "status"
    /\ IF c_resp[1].status_ok THEN CheckGoesOn("json")
       ELSE CheckException("Could not check for updates")
    /\ UNCHANGED <<releaseVars, buildVars, processVars, issueVars, harnessVars, handlerVars, installVars,
                   tempVars, workerVars, downloadVars, abort_check_flag,
                   handler_deleted, timer, event_queue, home_log, abort_at, c_old>>

\* update.py:78-79: response.json()
ParseReleases ==
    /\ c_pc = "json"
    /\ IF c_resp[1].json_ok THEN CheckGoesOn("releases")
       ELSE CheckException("Failed to parse GitHub API response")
    /\ UNCHANGED <<releaseVars, buildVars, processVars, issueVars, harnessVars, handlerVars, installVars,
                   tempVars, workerVars, downloadVars, abort_check_flag,
                   handler_deleted, timer, event_queue, home_log, abort_at, c_old>>

\* update.py:81-88: no release at all, or the tag_name of the latest
TakeLatestRelease ==
    /\ c_pc = "releases"
    /\ IF c_resp[1].releases = <<>>
       THEN /\ c_pc' = "emit"
            /\ c_emit' = << <<"status_changed", "No releases found on GitHub.">>,
                            <<"update_check_finished", FALSE, None>> >>
            /\ c_resp' = None
       ELSE CheckGoesOn("compare")
    /\ UNCHANGED <<releaseVars, buildVars, processVars, issueVars, harnessVars, handlerVars, installVars,
                   tempVars, workerVars, downloadVars, abort_check_flag,
                   handler_deleted, timer, event_queue, home_log, abort_at, c_old>>

\* update.py:90-102: what the check has to say about the latest release:
\* the signals in order, with the assignment of latest_release_data (line
\* 97) between them
CheckVerdict(latest_tag, current_version) ==
    IF latest_tag = None
    THEN << <<"error_occurred", "Latest release found, but it has no version tag.">>,
            <<"update_check_finished", FALSE, None>> >>
    ELSE IF StrGreater(latest_tag[1], current_version)
    THEN << <<"status_changed", "Update available", latest_tag[1]>>,
            <<"store", latest_tag[1]>>,
            <<"update_check_finished", TRUE, latest_tag>> >>
    ELSE << <<"status_changed", "You are using the latest version.">>,
            <<"update_check_finished", FALSE, None>> >>

\* update.py:90-102
CompareVersions ==
    /\ c_pc = "compare"
    /\ c_pc' = "emit"
    /\ c_emit' = CheckVerdict(c_resp[1].releases[1].tag_name, app_version)
    /\ c_resp' = None
    /\ UNCHANGED <<releaseVars, buildVars, processVars, issueVars, harnessVars, handlerVars, installVars,
                   tempVars, workerVars, downloadVars, abort_check_flag,
                   handler_deleted, timer, event_queue, home_log, abort_at, c_old>>

\* One statement of the emitting branch: a signal is emitted and queued for
\* the slot of Home, or latest_release_data assigned.  Emitting on a handler
\* that deleteLater has destroyed raises and ends the thread; whether it is
\* destroyed already is open once deleteLater was called.
CheckEmits ==
    /\ c_pc = "emit"
    /\ LET s == Head(c_emit)
           rest == Tail(c_emit)
       IN  \E destroyed \in { FALSE, handler_deleted } :
             IF destroyed /\ s[1] # "store"
             THEN /\ c_pc' = "done"
                  /\ c_emit' = <<>>
                  /\ UNCHANGED <<signals, event_queue, latest_release_data>>
             ELSE /\ c_emit' = rest
                  /\ c_pc' = IF rest = <<>> THEN "done" ELSE "emit"
                  /\ IF s[1] = "store"
                     THEN /\ latest_release_data' =
                               <<[tag_name |-> s[2], manifest_asset |-> TRUE]>>
                          /\ UNCHANGED <<signals, event_queue>>
                     ELSE /\ signals' = Emit(<<s>>)
                          /\ event_queue' = event_queue \o HomeSlots(s)
                          /\ UNCHANGED latest_release_data
    /\ UNCHANGED <<releaseVars, buildVars, processVars, issueVars, harnessVars, handlerVars, installVars,
                   tempVars, workerVars, h_pc, manifest_data, download_queue,
                   current, handle, downloaded_files, total_download_size,
                   total_bytes_received, settings, app_running, sessions,
                   session_log, c_resp, abort_check_flag, handler_deleted, timer,
                   home_log, abort_at, c_old>>

\* home_window.py:332-338 with abort_check (update.py:298-300): the
\* single-shot timer fires after 2 seconds
OnUpdateCheckTimeout ==
    /\ timer = "running"
    /\ timer' = "fired"
    /\ abort_check_flag' = TRUE
    /\ handler_deleted' = TRUE
    /\ home_log' = Append(home_log, <<"timeout">>)
    /\ abort_at' = IF c_pc = "get" THEN <<Len(signals)>> ELSE abort_at
    /\ UNCHANGED <<releaseVars, buildVars, processVars, issueVars, harnessVars, handlerVars, installVars,
                   tempVars, workerVars, downloadVars, c_pc, c_resp, c_emit,
                   event_queue, c_old>>

\* home_window.py:299-321 and 323-330: the slot of the queued signal runs.
\* Not in time: it returns.  In time: the timer is stopped, the result
\* shown (the prompt for an available update) and the handler released.
DeliverToHome ==
    /\ event_queue # <<>>
    /\ LET s == Head(event_queue)
       IN  /\ event_queue' = Tail(event_queue)
           /\ IF ~TimerActive
              THEN /\ home_log' = Append(home_log, <<"discarded", s[1]>>)
                   /\ UNCHANGED <<timer, handler_deleted>>
              ELSE /\ timer' = "stopped"
                   /\ handler_deleted' = TRUE
                   /\ home_log' = Append(home_log,
                        IF s[1] = "error_occurred" THEN <<"error printed">>
                        ELSE IF s[2] THEN <<"prompt", s[3][1]>>
                        ELSE <<"no update">>)
    /\ UNCHANGED <<releaseVars, buildVars, processVars, issueVars, harnessVars, handlerVars, installVars,
                   tempVars, workerVars, downloadVars, c_pc, c_resp, c_emit,
                   abort_check_flag, abort_at, c_old>>

\* The application starts with auto_check_updates on: no check made yet.
InitCheck ==
    /\ manifest = RoutingScenario
    /\ tag_name = NewestRelease(manifest)
    /\ assets = NoFiles
    /\ app_version \in {FallbackVersion, 2, 3, 10}
    /\ update_path = <<>>
    /\ NoDisk
    /\ HarnessUnused
    /\ WorkerNotStarted
    /\ HandlerIdle
    /\ MainAppRunning
    /\ CheckUnused
    /\ BuildUnused
    /\ IssueUnused

NextCheck ==
    \/ CheckForUpdatesOnStartup
    \/ GetReturns
    \/ RaiseForStatus
    \/ ParseReleases
    \/ TakeLatestRelease
    \/ CompareVersions
    \/ CheckEmits
    \/ OnUpdateCheckTimeout
    \/ DeliverToHome

SpecCheck == InitCheck /\ [][NextCheck]_vars

\* --------------------------------------- the handler of the settings dialog
\* The checks one handler is asked for in one run of the application.
MaxChecks == 2

\* The calls of check_for_updates so far.
ChecksStarted ==
    Cardinality({ i \in 1..Len(signals) :
                    signals[i] = <<"status_changed", "Checking for updates...">> })

\* update.py:58-66: a new thread is started whether or not the thread of an
\* earlier check has ended; one still blocked in session.get stays so
CheckForUpdates ==
    /\ app_running
    /\ c_pc \in {"idle", "done", "get"}
    /\ ChecksStarted < MaxChecks
    /\ c_old' = IF c_pc = "get" THEN c_old + 1 ELSE c_old
    /\ signals' = Emit(<< <<"status_changed", "Checking for updates...">> >>)
    /\ latest_release_data' = None
    /\ abort_check_flag' = FALSE
    /\ c_pc' = "get"
    /\ UNCHANGED <<releaseVars, buildVars, processVars, issueVars, harnessVars, handlerVars, installVars,
                   tempVars, workerVars, h_pc, manifest_data, download_queue,
                   current, handle, downloaded_files, total_download_size,
                   total_bytes_received, settings, app_running, sessions,
                   session_log, c_resp, c_emit, handler_deleted, timer,
                   event_queue, home_log, abort_at>>

\* settings_dialog.py:74-75: the "Check for Updates" button is disabled from
\* the click until the check has reported (settings_dialog.py:195 and 222)
CheckButtonUsable == c_pc \in {"idle", "done"}

\* The handler as SettingsDialog constructs it (settings_dialog.py:30): no
\* check made, nothing downloaded; the release v3 is published with direct
\* packages of one byte.
InitCalls ==
    /\ InitDownload
    /\ latest_release_data = None
    /\ ~temp_exists
    /\ app_version \in {1, 2}
    /\ \A v \in DOMAIN manifest.packages :
          \A i \in 1..Len(manifest.packages[v]) :
             /\ manifest.packages[v][i].type = "direct"
             /\ manifest.packages[v][i].size = 1

\* check_for_updates and download_manifest_and_start_update in any order,
\* one check and one download session at a time, with the threads they start.
NextCalls ==
    \/ CheckButtonUsable /\ CheckForUpdates
    \/ GetReturns
    \/ RaiseForStatus
    \/ ParseReleases
    \/ TakeLatestRelease
    \/ CompareVersions
    \/ CheckEmits
    \/ AllIdle /\ DownloadManifestAndStartUpdate
    \/ \E t \in Sessions : RunDownloadManifest(t)
    \/ \E t \in Sessions : FetchOpen(t)
    \/ \E t \in Sessions : FetchChunk(t)
    \/ \E t \in Sessions : FetchComplete(t)

SpecCalls == InitCalls /\ [][NextCalls]_vars

\* ------------------------------------------- checks started over and aborted
\* update.py:298-300
AbortCheck ==
    /\ app_running
    /\ ~abort_check_flag
    /\ abort_check_flag' = TRUE
    /\ abort_at' = IF c_pc = "get" THEN <<Len(signals)>> ELSE abort_at
    /\ UNCHANGED <<releaseVars, buildVars, processVars, issueVars, harnessVars, handlerVars, installVars,
                   tempVars, workerVars, downloadVars, c_pc, c_resp, c_emit,
                   handler_deleted, timer, event_queue, home_log, c_old>>

\* update.py:72-111: the statements _run_check_for_updates runs, in order,
\* for what session.get gave (None: it raised) when no abort is seen
CheckOutcome(r) ==
    IF r = None \/ ~r[1].status_ok
    THEN << <<"error_occurred", "Could not check for updates">>,
            <<"update_check_finished", FALSE, None>> >>
    ELSE IF ~r[1].json_ok
    THEN << <<"error_occurred", "Failed to parse GitHub API response">>,
            <<"update_check_finished", FALSE, None>> >>
    ELSE IF r[1].releases = <<>>
    THEN << <<"status_changed", "No releases found on GitHub.">>,
            <<"update_check_finished", FALSE, None>> >>
    ELSE CheckVerdict(r[1].releases[1].tag_name, app_version)

\* The statement emits a signal (it is not the assignment of line 97).
IsSignal(s) == s[1] # "store"

\* The signal has a slot in Home.
HasHomeSlot(s) == HomeSlots(s) # <<>>

\* update.py:72-111 in the thread of an earlier check: its session.get
\* returns or raises after check_for_updates was called again, and the thread
\* runs to its end on the flag as it is now (taken as one step)
StaleCheckReturns ==
    /\ c_old > 0
    /\ c_old' = c_old - 1
    /\ \E r \in {None} \cup { <<x>> : x \in CheckResponses } :
         LET outcome == IF Aborted THEN <<>> ELSE CheckOutcome(r)
             emitted == SelectSeq(outcome, IsSignal)
             stored == { i \in 1..Len(outcome) : outcome[i][1] = "store" }
         IN  /\ signals' = Emit(emitted)
             /\ event_queue' = event_queue \o SelectSeq(emitted, HasHomeSlot)
             /\ latest_release_data' =
                   IF stored = {} THEN latest_release_data
                   ELSE <<[tag_name |-> outcome[CHOOSE i \in stored : TRUE][2],
                           manifest_asset |-> TRUE]>>
    /\ UNCHANGED <<releaseVars, buildVars, processVars, issueVars, harnessVars, handlerVars, installVars,
                   tempVars, workerVars, h_pc, manifest_data, download_queue,
                   current, handle, downloaded_files, total_download_size,
                   total_bytes_received, settings, app_running, sessions,
                   session_log, c_pc, c_resp, c_emit, abort_check_flag,
                   handler_deleted, timer, home_log, abort_at>>

\* check_for_updates and abort_check in any order, with the threads of the
\* checks.
NextAbort ==
    \/ CheckForUpdates
    \/ AbortCheck
    \/ StaleCheckReturns
    \/ GetReturns
    \/ RaiseForStatus
    \/ ParseReleases
    \/ TakeLatestRelease
    \/ CompareVersions
    \/ CheckEmits

SpecAbort == InitCheck /\ [][NextAbort]_vars

\* ------------------------------------------------ Manifest Builder runs
\* create_update_package.py:17
HOP_INTERVAL == 3

\* The tags of the releases built, in the order of their numbers.
BuildTags == {1, 2, 3, 4, 5, 10, 11}

\* generate_manifest_for_build (create_update_package.py:27-34): the file
\* lists a build may have: the main executable alone, in one of two contents.
BuildFiles == { FileManifestOf(e, PlainPath, 0) : e \in 1..MaxHash }

\* create_update_package.py:154: {"versions": {}, "packages": {}}
EmptyManifest == [versions |-> <<>>, packages |-> <<>>]

RECURSIVE SortedReverse(_)
\* sorted(keys, reverse=True) (create_update_package.py:163): tags are
\* strings and are ordered as strings
SortedReverse(S) ==
    IF S = {} THEN <<>>
    ELSE LET first == SortedReverseFirst(S)
         IN  <<first>> \o SortedReverse(S \ {first})

\* list.index(x), counted from 0
IndexOf(s, x) == (CHOOSE i \in 1..Len(s) : s[i] = x) - 1

\* create_update_package.py:167: next((v for v in sorted_versions if v !=
\* new_version_tag), None)
PreviousVersion(sorted_versions, new_version_tag) ==
    LET others == SelectSeq(sorted_versions, LAMBDA v : v # new_version_tag)
    IN  IF others = <<>> THEN None ELSE <<Head(others)>>

\* create_update_package.py:164-178: the patch targets, <<version, type>>
PatchTargets(sorted_versions, new_version_tag) ==
    LET previous_version == PreviousVersion(sorted_versions, new_version_tag)
        direct == IF previous_version = None THEN <<>>
                  ELSE << <<previous_version[1], "direct">> >>
        version_index == IndexOf(sorted_versions, new_version_tag)
        hop_target_index == IF version_index + HOP_INTERVAL < Len(sorted_versions) - 1
                            THEN version_index + HOP_INTERVAL
                            ELSE Len(sorted_versions) - 1
        hop_version == sorted_versions[hop_target_index + 1]
    IN  IF /\ Len(sorted_versions) > HOP_INTERVAL
           /\ (version_index % HOP_INTERVAL = 0 \/ previous_version = None)
           /\ previous_version # <<hop_version>>
        THEN direct \o << <<hop_version, "cumulative">> >>
        ELSE direct

\* Mutant of PackagesWith: the packages are stored under another key.
PackagesUnderOtherKey(packages, new_version_tag, new_packages) ==
    [v \in DOMAIN packages \cup {new_version_tag + 1} |->
        IF v = new_version_tag + 1 THEN new_packages ELSE packages[v]]

\* create_update_package.py:212 (and 182):
\* master_manifest["packages"][new_version_tag] = new_packages
PackagesWith(packages, new_version_tag, new_packages) ==
    [v \in DOMAIN packages \cup {new_version_tag} |->
        IF v = new_version_tag THEN new_packages ELSE packages[v]]

\* create_update_package.py:160:
\* master_manifest["versions"][new_version_tag] = new_version_files
VersionsWith(versions, new_version_tag, new_version_files) ==
    [v \in DOMAIN versions \cup {new_version_tag} |->
        IF v = new_version_tag THEN new_version_files ELSE versions[v]]

\* create_update_package.py:131-217: one run of main for the release
\* new_version_tag.  The manifest.json of the latest release is fetched, or
\* it is not there or cannot be fetched and a new one is started; the old
\* executables are obtained or not; the manifest written is published with
\* the release.
BuilderRun ==
    /\ Len(released) < MaxRuns
    /\ \E new_version_tag \in BuildTags, new_version_files \in BuildFiles,
          manifest_fetched \in BOOLEAN, have_old_exe \in BOOLEAN :
         /\ \A i \in 1..Len(released) : released[i] <= new_version_tag
         /\ manifest_fetched => master # None
         /\ LET loaded == IF manifest_fetched THEN master[1] ELSE EmptyManifest
                versions == VersionsWith(loaded.versions, new_version_tag,
                                         new_version_files)
                sorted_versions == SortedReverse(DOMAIN versions)
                patch_targets == PatchTargets(sorted_versions, new_version_tag)
                new_packages == Infos(BuildPackages(versions, new_version_tag,
                                                    patch_targets, have_old_exe))
            IN  /\ master' = <<[versions |-> versions,
                                packages |-> PackagesWith(loaded.packages,
                                                new_version_tag, new_packages)]>>
                /\ build_log' = <<[new_version_tag |-> new_version_tag,
                                   loaded |-> loaded,
                                   published_before |-> master,
                                   patch_targets |-> patch_targets]>>
                /\ released' = Append(released, new_version_tag)
    /\ UNCHANGED <<releaseVars, checkVars, processVars, issueVars, harnessVars, handlerVars,
                   installVars, tempVars, workerVars, downloadVars>>

\* No release has been built.
InitBuild ==
    /\ manifest = RoutingScenario
    /\ tag_name = NewestRelease(manifest)
    /\ assets = NoFiles
    /\ app_version = FallbackVersion
    /\ update_path = <<>>
    /\ NoDisk
    /\ HarnessUnused
    /\ WorkerNotStarted
    /\ HandlerIdle
    /\ MainAppRunning
    /\ CheckUnused
    /\ BuildUnused
    /\ IssueUnused

NextBuild == BuilderRun

SpecBuild == InitBuild /\ [][NextBuild]_vars

\* ------------------------------------------------ duplicate-issue check
\* Scores are percentages kept in hundredths of a percent.
Pct(n) == n * 100

\* The error names extract_error_type may find in a traceback.
ErrorTypes == {"KeyError", "ImportError"}

\* A traceback text, by what the functions below read of it: the error type
\* extract_error_type finds (None: none of the names it knows) and the set
\* of words of its normalized form.
Tracebacks(words) ==
    { [error_type |-> t, words |-> w] :
        t \in {None} \cup { <<e>> : e \in ErrorTypes },
        w \in (SUBSET words) \ {{}} }

\* The issue bodies compared.  block: the code block of the body that holds
\* 'Traceback' or 'File "', with its text and whether it is longer than 50
\* characters (None: no such block).  section: the content of the
\* 'traceback' template section when it holds 'Traceback' or 'File "' (None
\* otherwise).  mentions: the body holds one of the words error, exception,
\* traceback, failed, crash; it does when a traceback in it names an error.
Bodies ==
    { b \in [block : {None} \cup { <<[text |-> t, long |-> l]>> :
                                     t \in Tracebacks({"a", "b"}), l \in BOOLEAN },
             section : {None} \cup { <<t>> : t \in Tracebacks({"a"}) },
             mentions : BOOLEAN] :
        /\ (b.block # None /\ b.block[1].text.error_type # None) => b.mentions
        /\ (b.section # None /\ b.section[1].error_type # None) => b.mentions }

\* What Levenshtein.ratio may give for two texts that differ, as a score
\* (check_duplicate_issues.py:200-203); None when the module is missing.
RatioLevels == {None, <<Pct(0)>>, <<Pct(60)>>, <<Pct(84)>>}

\* check_duplicate_issues.py:206-231: the code block is taken as a traceback
\* when it is longer than 50 characters and names an error
extract_traceback(body) ==
    IF /\ body.block # None
       /\ body.block[1].long
       /\ body.block[1].text.error_type # None
    THEN <<body.block[1].text>>
    ELSE None

\* check_duplicate_issues.py:455-468: the traceback extracted, or else the
\* 'traceback' section of the template
FoundTraceback(body) ==
    IF extract_traceback(body) # None THEN extract_traceback(body)
    ELSE body.section

\* check_duplicate_issues.py:423-443
extract_error_type(traceback_text) == traceback_text.error_type

\* check_duplicate_issues.py:302-420, followed by the split into words of
\* calculate_similarity
normalize_traceback(traceback_text) == traceback_text.words

\* check_duplicate_issues.py:170-203: the Jaccard index of the two sets of
\* words when Levenshtein is missing, the ratio it gives otherwise
calculate_similarity(words1, words2, ratio) ==
    IF ratio = None
    THEN IF words1 = {} \/ words2 = {} THEN 0
         ELSE (Cardinality(words1 \cap words2) * Pct(100))
                  \div Cardinality(words1 \cup words2)
    ELSE IF words1 = words2 THEN Pct(100) ELSE ratio[1]

\* Mutant of PenalizedSimilarity: different error types cost nothing.
Unpenalized(similarity) == similarity

\* check_duplicate_issues.py:507-510: min(similarity, 50.0) * 0.7
PenalizedSimilarity(similarity) ==
    ((IF similarity < Pct(50) THEN similarity ELSE Pct(50)) * 7) \div 10

\* Mutant of OneSidedScore: a lone traceback earns half of the score.
HalfCredit(mentions) == IF mentions THEN Pct(50) ELSE 0

\* check_duplicate_issues.py:476-483: 30.0 when the body without traceback
\* mentions an error, 0.0 otherwise
OneSidedScore(mentions) == IF mentions THEN Pct(30) ELSE 0

\* check_duplicate_issues.py:446-519
calculate_traceback_similarity(b1, b2, ratio) ==
    LET traceback1 == FoundTraceback(b1)
        traceback2 == FoundTraceback(b2)
    IN  IF traceback1 = None /\ traceback2 = None THEN 0
        ELSE IF traceback1 = None \/ traceback2 = None
        THEN OneSidedScore((IF traceback1 # None THEN b2 ELSE b1).mentions)
        ELSE LET error_type1 == extract_error_type(traceback1[1])
                 error_type2 == extract_error_type(traceback2[1])
                 error_type_penalty == /\ error_type1 # None
                                       /\ error_type2 # None
                                       /\ error_type1 # error_type2
                 normalized1 == normalize_traceback(traceback1[1])
                 normalized2 == normalize_traceback(traceback2[1])
                 raw == calculate_similarity(normalized1, normalized2, ratio)
                 similarity == IF error_type_penalty
                               THEN PenalizedSimilarity(raw) ELSE raw
             IN  IF normalized1 = {} \/ normalized2 = {} THEN 0
                 ELSE IF similarity > Pct(70) /\ ~error_type_penalty
                 THEN (IF (similarity * 12) \div 10 < Pct(100)
                       THEN (similarity * 12) \div 10 ELSE Pct(100))
                 ELSE similarity

\* check_duplicate_issues.py:647, combined_similarity_score: the traceback
\* similarity of the two bodies is computed
CalculateTracebackSimilarity ==
    /\ traceback_sim = None
    /\ body1 # None
    /\ traceback_sim' = <<calculate_traceback_similarity(body1[1], body2[1],
                                                         levenshtein)>>
    /\ UNCHANGED <<body1, body2, levenshtein, releaseVars, harnessVars,
                   handlerVars, installVars, tempVars, workerVars, downloadVars,
                   checkVars, buildVars, processVars>>

\* Two issue bodies to compare.
InitIssues ==
    /\ body1 \in { <<b>> : b \in Bodies }
    /\ body2 \in { <<b>> : b \in Bodies }
    /\ levenshtein \in RatioLevels
    /\ traceback_sim = None
    /\ manifest = RoutingScenario
    /\ tag_name = NewestRelease(manifest)
    /\ assets = NoFiles
    /\ app_version = FallbackVersion
    /\ update_path = <<>>
    /\ NoDisk
    /\ HarnessUnused
    /\ WorkerNotStarted
    /\ HandlerIdle
    /\ MainAppRunning
    /\ CheckUnused
    /\ BuildUnused

NextIssues == CalculateTracebackSimilarity

SpecIssues == InitIssues /\ [][NextIssues]_vars

\* ---------------------------------------------------------------- claims
\* The packages of the manifest that lead into version v.
PackagesInto(m, v) ==
    IF v \in DOMAIN m.packages
    THEN {m.packages[v][i] : i \in 1..Len(m.packages[v])} ELSE {}

\* One more package: from the least sizes d over chains of at most k
\* packages to those over chains of at most k + 1.
LeastStep(m, d) ==
    [v \in DOMAIN d |->
        LET sums == ({d[v]} \ {Inf}) \cup
                    { d[p.from_version] + p.size :
                        p \in { q \in PackagesInto(m, v) :
                                  /\ q.from_version \in DOMAIN d
                                  /\ d[q.from_version] # Inf } }
        IN  IF sums = {} THEN Inf
            ELSE CHOOSE x \in sums : \A y \in sums : x <= y]

RECURSIVE LeastWithin(_, _, _)
\* For each version v, the least summed size over the chains of at most k
\* more packages, starting from the least sizes d (Inf: no chain).
LeastWithin(m, d, k) ==
    IF k = 0 THEN d ELSE LeastWithin(m, LeastStep(m, d), k - 1)

\* The least summed size of any chain from s to t: a chain that visits a
\* version twice is no smaller than the same chain without the loop, so
\* chains of at most |versions| packages decide it.
LeastTotal(m, s, t) ==
    LeastWithin(m, [v \in DOMAIN m.versions |-> IF v = s THEN 0 ELSE Inf],
                Cardinality(DOMAIN m.versions))[t]

\* path is a connected chain of packages of the manifest from s to t
IsChain(m, path, s, t) ==
    IF path = <<>> THEN s = t
    ELSE /\ path[1].from_version = s
         /\ path[Len(path)].download_from_tag = t
         /\ \A i \in 1..(Len(path) - 1) :
                path[i + 1].from_version = path[i].download_from_tag
         /\ \A i \in 1..Len(path) :
                \E p \in PackagesInto(m, path[i].download_from_tag) :
                    path[i] = WithTarget(p, path[i].download_from_tag)

ShortestChain(m, path, s, t) ==
    LeastTotal(m, s, t) # Inf =>
        /\ IsChain(m, path, s, t)
        /\ SumSizes(path) <= LeastTotal(m, s, t)

\* C1: whenever some chain of packages leads from current to target, each
\* resolver returns a chain from current to target whose summed size is at
\* most that of every chain from current to target; in the routing scenario
\* (10, 1, 5 and the hop of 12) it returns the single hop package.
C1_ShortestPath ==
    /\ stage # "inputs" =>
         /\ ShortestChain(manifest, found_h, app_version, end_version)
         /\ (manifest = RoutingScenario /\ app_version = 1 /\ end_version = 4) =>
                found_h = <<WithTarget(Package(1, 4, 12, "cumulative"), 4)>>
    /\ stage \notin {"inputs", "handler"} =>
         /\ ShortestChain(manifest, found_w, app_version, end_version)
         /\ (manifest = RoutingScenario /\ app_version = 1 /\ end_version = 4) =>
                found_w = <<WithTarget(Package(1, 4, 12, "cumulative"), 4)>>

\* C1 witness: the routing scenario resolved by both resolvers.
C1_Witness ==
    /\ stage = "worker"
    /\ manifest = RoutingScenario /\ app_version = 1 /\ end_version = 4
    /\ SumSizes(found_h) = 12 /\ SumSizes(found_w) = 12

\* C6: the applier applies exactly the sequence of packages the download
\* manager fetched (same packages, same order, same destination versions).
C6_SameSequence ==
    stage = "applied" => worker_path = update_path

RunSucceeded == finished # <<>> /\ finished[1].success

RunFailed == finished # <<>> /\ ~finished[1].success

\* The install directory held exactly the files of the starting version
\* when the first step began.
StartedClean ==
    /\ step_log # <<>>
    /\ step_log[1].before = manifest.versions[app_version]

\* The step recorded as e found the installed target with another hash
\* than the old_sha256 its package declares.
HashMismatch(e) ==
    e.expected # None /\ e.found # None /\ e.found # e.expected

\* C2: an install directory that equals the file manifest of the starting
\* version equals, after a run that applied the chain and reported success,
\* the file manifest of the chain's final to_version.
C2_Converges ==
    (RunSucceeded /\ StartedClean) =>
        install = manifest.versions[worker_path[Len(worker_path)].download_from_tag]

\* C3: when a step's package declares a patch and the installed target's
\* hash differs from old_sha256, the run aborts at that step: the target and
\* the whole install directory are as the step found them (earlier steps
\* kept), nothing was deleted or copied by the step, no patched copy is
\* left, and no later step is begun.
C3_MismatchAborts ==
    \A i \in 1..Len(step_log) :
        HashMismatch(step_log[i]) =>
            /\ i = Len(step_log)
            /\ w_pc = "done" /\ RunFailed
            /\ install = step_log[i].before
            /\ patched_new = None
            /\ step_log[i].deleted = {} /\ step_log[i].written = {}

\* C3 witness: the second step of a chain found a modified executable after
\* the first step had changed the install directory.
C3_Witness ==
    /\ Len(step_log) = 2
    /\ HashMismatch(step_log[2])
    /\ step_log[1].written # {}
    /\ install # step_log[1].before
    /\ RunFailed

\* C4: in every run that ends with finished(False, ...), the version marker
\* holds at the end what it held at the start.
C4_MarkerKept ==
    RunFailed => get_current_app_version(marker) = app_version

\* C5: the main executable is launched in a run if and only if the run
\* reports success, and the step that reports failure launches nothing and
\* leaves the install directory as the steps before have made it.
C5_LaunchIffSuccess ==
    /\ [](launched <=> RunSucceeded)
    /\ [][(finished = <<>> /\ finished' # <<>> /\ ~finished'[1].success) =>
            (install' = install /\ launched' = FALSE)]_vars

\* C5 witness: a run failed at its second step (package missing) after a
\* first step that wrote files, and the executable was not launched.
C5_Witness ==
    /\ RunFailed /\ ~launched
    /\ Len(step_log) = 1 /\ w_step = 2
    /\ step_log[1].written # {}
    /\ install # step_log[1].before

\* C7: once an apply step has completed, no path that is a key of the
\* step's from-manifest and not of its to-manifest is in the install
\* directory.
C7_RemovedAbsent ==
    (w_pc \in {"step", "finalize"} /\ step_log # <<>>) =>
        LET e == step_log[Len(step_log)]
        IN  FilesToRemove(manifest.versions[e.from_version],
                          manifest.versions[e.to_version])
            \cap DOMAIN install = {}

\* The paths with the same hash in the from- and to-manifest of step e.
UnchangedFiles(e) ==
    { f \in DOMAIN manifest.versions[e.from_version]
            \cap DOMAIN manifest.versions[e.to_version] :
        manifest.versions[e.from_version][f] = manifest.versions[e.to_version][f] }

\* C8: in every apply step a file whose hash is the same in the from- and
\* to-manifest is neither deleted nor written by the patch, delete and copy
\* actions of the step.
C8_UnchangedUntouched ==
    \A i \in 1..Len(step_log) :
        UnchangedFiles(step_log[i])
        \cap (step_log[i].deleted \cup step_log[i].written) = {}

\* C8 witness: a completed step that wrote a file and had an unchanged file
\* beside it, still with the content the step found.
C8_Witness ==
    /\ w_pc = "finalize"
    /\ LET e == step_log[Len(step_log)]
       IN  /\ e.written # {}
           /\ \E f \in UnchangedFiles(e) :
                 f \in DOMAIN e.before /\ f \in DOMAIN install
                 /\ install[f] = e.before[f]

\* ---------------------------------------------------- claims on download
\* The last signal the handler emitted.
LastSignal == signals[Len(signals)]

\* The download_finished emissions so far, as positions in signals.
DownloadFinishedAt ==
    {i \in 1..Len(signals) : signals[i][1] = "download_finished"}

Requested(t, f) ==
    \E i \in 1..Len(session_log[t].requests) : session_log[t].requests[i].file = f

Fetching == { t \in Sessions : h_pc[t] \in {"fetch", "stream"} }

\* C12: at most one package fetch of the handler is in progress, a session
\* requests the packages in the order of the resolved path, and while it
\* fetches a package every package before it is completely written.
C12_OneFetchInOrder ==
    /\ Cardinality(Fetching) <= 1
    /\ \A t \in Fetching :
         LET done == IF h_pc[t] = "fetch" THEN Len(session_log[t].requests)
                     ELSE Len(session_log[t].requests) - 1
         IN  /\ Len(session_log[t].requests) <= Len(update_path)
             /\ \A i \in 1..Len(session_log[t].requests) :
                   session_log[t].requests[i].file = update_path[i].file
             /\ \A i \in 1..done :
                   update_path[i].file \in CompleteFiles(update_path, temp_files)

\* C13: every download_progress(received, total) of a session carries the
\* sum of the sizes of the packages of the session's resolved path as total
\* and the bytes the session has written so far as received; in the signals
\* of a session received never decreases and total never changes.
C13_ProgressCumulative ==
    \A t \in 1..sessions :
        LET p == session_log[t].progress
        IN  /\ \A i \in 1..Len(p) :
                  p[i][1] = i /\ p[i][2] = SumSizes(session_log[t].path)
            /\ \A i \in 1..(Len(p) - 1) :
                  p[i][1] <= p[i + 1][1] /\ p[i][2] = p[i + 1][2]

\* C14: whenever check_for_existing_download returns the directory, the
\* directory holds manifest.json and every package file of the resolved
\* path with its expected size.
C14_ReuseOnlyIfComplete ==
    check_for_existing_download # None =>
        /\ temp_exists /\ temp_manifest # None
        /\ \A i \in 1..Len(update_path) :
              update_path[i].file \in CompleteFiles(update_path, temp_files)

\* No chain of packages of the manifest m leads from s to t, or s is not a
\* version of m.
NoChain(m, s, t) == s \notin DOMAIN m.versions \/ LeastTotal(m, s, t) = Inf

\* C15: with the current version missing from the manifest's versions or no
\* chain of packages from it to the target, a session goes on with no path;
\* the session that found no path has ended with error_occurred and
\* download_finished(False, "") as its last signals, has sent no request,
\* has left the temp directory as it found it, and the application runs.
C15_NoPathReported ==
    \A t \in 1..sessions :
        /\ NoChain(manifest, app_version, tag_name) => session_log[t].path = <<>>
        /\ session_log[t].no_path =>
              /\ UpdateHandler_find_update_path(manifest, app_version, tag_name) = <<>>
              /\ h_pc[t] = "ended"
              /\ session_log[t].requests = <<>>
              /\ app_running
              /\ t = sessions =>
                    /\ signals[Len(signals) - 1] = <<"error_occurred", "no viable update path">>
                    /\ LastSignal = <<"download_finished", FALSE, "">>
                    /\ <<temp_exists, temp_manifest, temp_files>> = session_log[t].disk_before
                    /\ settings = session_log[t].settings_before

\* C15 witness: two sessions of an install at a version of the manifest
\* without a chain to the target found no path while the temp directory of
\* an earlier run existed.
C15_Witness ==
    /\ sessions = 2
    /\ session_log[1].no_path /\ session_log[2].no_path
    /\ app_version \in DOMAIN manifest.versions
    /\ temp_exists

\* ------------------------------------------------------- claims on check
\* C16: after abort_check was called while the check thread was inside
\* session.get, the thread emits no signal and latest_release_data stays
\* None, whether the call returns a response or raises.
C16_AbortedCheckSilent ==
    abort_at # None =>
        /\ Len(signals) = abort_at[1]
        /\ event_queue = <<>>
        /\ latest_release_data = None
        /\ c_pc \in {"get", "done"}

\* C16 witness: the call has returned after abort_check came during it, and
\* the thread has ended.
C16_Witness ==
    /\ abort_at # None
    /\ c_pc = "done"
    /\ abort_check_flag

\* What the slots of Home did on a result in time.
InTime == {"prompt", "no update", "error printed"}

\* C17: after the timeout handler has run, the slots of Home only discard
\* what arrives: no prompt and nothing else follows; and once a result or an
\* error was handled in time the timer is stopped and the timeout handler
\* has not run and cannot run.
C17_StaleDiscarded ==
    /\ \A i, j \in 1..Len(home_log) :
          (i < j /\ home_log[i][1] = "timeout") => home_log[j][1] = "discarded"
    /\ (\E i \in 1..Len(home_log) : home_log[i][1] \in InTime) =>
          /\ timer = "stopped"
          /\ ~ENABLED OnUpdateCheckTimeout
          /\ \A j \in 1..Len(home_log) : home_log[j][1] # "timeout"

\* C17 witness: the check found a newer release after the timeout handler
\* had run; its update_check_finished(True, ...) was discarded by the slot.
C17_Witness ==
    /\ Len(home_log) = 2
    /\ home_log[1] = <<"timeout">>
    /\ home_log[2] = <<"discarded", "update_check_finished">>
    /\ \E i \in 1..Len(signals) :
          signals[i][1] = "update_check_finished" /\ signals[i][2]

\* ------------------------------------------------------- claims on builds
\* C18: every key of 'packages' and every from_version of every package of
\* the master manifest is a key of 'versions'.
C18_PackagesReferToVersions ==
    master # None =>
        LET m == master[1]
        IN  /\ DOMAIN m.packages \subseteq DOMAIN m.versions
            /\ \A v \in DOMAIN m.packages : \A i \in 1..Len(m.packages[v]) :
                  m.packages[v][i].from_version \in DOMAIN m.versions

\* C18 witness: after four runs the manifest holds four versions and the
\* newest has a direct and a cumulative package.
C18_Witness ==
    /\ master # None
    /\ Cardinality(DOMAIN master[1].versions) = 4
    /\ \E v \in DOMAIN master[1].packages :
          /\ Len(master[1].packages[v]) = 2
          /\ master[1].packages[v][2].type = "cumulative"

\* C19: every entry of 'versions' and of 'packages' that the published
\* manifest held before the last run is in the manifest after the run, with
\* the same content.
C19_GrowsMonotonically ==
    (build_log # None /\ build_log[1].published_before # None) =>
        LET before == build_log[1].published_before[1]
            after == master[1]
        IN  /\ \A v \in DOMAIN before.versions :
                  v \in DOMAIN after.versions /\ after.versions[v] = before.versions[v]
            /\ \A v \in DOMAIN before.packages :
                  v \in DOMAIN after.packages /\ after.packages[v] = before.packages[v]

\* The release before new_version_tag among the versions the run loaded.
EarlierVersions(log) ==
    { v \in DOMAIN log.loaded.versions : v < log.new_version_tag }

\* C20: after a run that loaded a manifest holding an earlier version,
\* packages[new_version] holds exactly one package from the release
\* immediately before the new one.
C20_PackageFromPreceding ==
    (build_log # None /\ EarlierVersions(build_log[1]) # {}) =>
        LET log == build_log[1]
            preceding == CHOOSE v \in EarlierVersions(log) :
                            \A w \in EarlierVersions(log) : w <= v
            packages == master[1].packages[log.new_version_tag]
        IN  Cardinality({ i \in 1..Len(packages) :
                            packages[i].from_version = preceding }) = 1

RECURSIVE ChainWithin(_, _, _, _)
\* The master manifest m holds a chain of at most n packages that leads
\* from version v to version target.
ChainWithin(m, v, target, n) ==
    \/ v = target
    \/ /\ n > 0
       /\ \E w \in DOMAIN m.packages :
             /\ \E i \in 1..Len(m.packages[w]) : m.packages[w][i].from_version = v
             /\ ChainWithin(m, w, target, n - 1)

\* The releases published so far, and the number of releases by which the
\* release v lies behind the newest one.
Published == { released[i] : i \in 1..Len(released) }

History(v) == Cardinality({ w \in Published : w > v })

\* C21: for every published version v that lies 'history' releases behind
\* the newest one, the master manifest holds a chain of packages from v to
\* the newest version of at most history / HOP_INTERVAL + 1 steps.
C21_ChainBounded ==
    master # None =>
        \A v \in Published :
            ChainWithin(master[1], v, released[Len(released)],
                        (History(v) \div HOP_INTERVAL) + 1)

\* The position of version v among the versions of the manifest m in
\* release order, counted from 1.
Position(m, v) == Cardinality({ w \in DOMAIN m.versions : w <= v })

\* The positions of the releases whose package list holds a cumulative
\* package.
HopReleases(m) ==
    { Position(m, v) : v \in { w \in DOMAIN m.packages :
          \E i \in 1..Len(m.packages[w]) : m.packages[w][i].type = "cumulative" } }

\* C22: the releases that carry a cumulative package are exactly every
\* HOP_INTERVAL-th release once more than HOP_INTERVAL versions exist, and
\* every cumulative package spans more than one consecutive release.
C22_HopEveryKth ==
    master # None =>
        LET m == master[1]
            n == Cardinality(DOMAIN m.versions)
        IN  /\ \E r \in 0..(HOP_INTERVAL - 1) :
                  HopReleases(m) =
                      { p \in (HOP_INTERVAL + 1)..n : p % HOP_INTERVAL = r }
            /\ \A v \in DOMAIN m.packages : \A i \in 1..Len(m.packages[v]) :
                  m.packages[v][i].type = "cumulative" =>
                      Position(m, v) - Position(m, m.packages[v][i].from_version) > 1

\* ------------------------------------------------- claims on the handoff
\* A FileSystemError is the last thing reported: the handler found no
\* updater executable, or the run of the updater ended on a missing install
\* directory or on a denied file operation.
FileSystemErrorReported ==
    \/ /\ w_pc = "unlaunched"
       /\ signals # <<>>
       /\ signals[Len(signals)] = <<"error_occurred", "no updater">>
    \/ /\ finished # <<>>
       /\ finished[Len(finished)].message \in
              {"Installation directory not found", "Permission denied"}

\* Nothing has been changed since the download ended: no file of the install
\* directory deleted or written and no '<target>.new' in it, the version
\* marker as the application read it, the temp directory as downloaded with
\* no extraction directory in it, and 'downloaded_update_dir' still set.
NothingMutated ==
    /\ \A i \in 1..Len(step_log) :
          step_log[i].deleted = {} /\ step_log[i].written = {}
    /\ patched_new = None
    /\ get_current_app_version(marker) = app_version
    /\ temp_exists
    /\ temp_manifest # None
    /\ extract = None
    /\ settings = <<UpdateTempDir>>

\* C23: when a FileSystemError (missing install directory, missing updater
\* executable, permission denied on a file operation) is reported, the
\* install directory, the version marker, the temp directory and the
\* 'downloaded_update_dir' setting are as they were before the operation.
C23_FileSystemErrorBeforeMutation ==
    FileSystemErrorReported => NothingMutated

\* C24: the updater changes the install directory (a file of it, a
\* '<target>.new' in it, the version marker) only after the process of the
\* main application has ended.
C24_MutatesOnlyAfterExit ==
    [][(install' # install \/ patched_new' # patched_new \/ marker' # marker)
          => main_exited]_vars

\* ------------------------------------------------ claims on issue scores
\* C26: when both bodies hold a traceback and the two tracebacks have
\* different recognised error types, calculate_traceback_similarity returns
\* less than 50: the similarity capped at 50 and reduced by 30%, at most 35,
\* never boosted.
C26_DifferentTypesBelow50 ==
    (/\ traceback_sim # None
     /\ FoundTraceback(body1[1]) # None
     /\ FoundTraceback(body2[1]) # None
     /\ extract_error_type(FoundTraceback(body1[1])[1]) # None
     /\ extract_error_type(FoundTraceback(body2[1])[1]) # None
     /\ extract_error_type(FoundTraceback(body1[1])[1])
            # extract_error_type(FoundTraceback(body2[1])[1]))
    => /\ traceback_sim[1] < Pct(50)
       /\ traceback_sim[1] <= Pct(35)

\* C26 witness: two tracebacks of the same words, one a KeyError and one an
\* ImportError, have been compared: the score is 35.
C26_Witness ==
    /\ traceback_sim = <<Pct(35)>>
    /\ extract_traceback(body1[1]) # None
    /\ extract_traceback(body2[1]) # None
    /\ extract_traceback(body1[1])[1].error_type = <<"KeyError">>
    /\ extract_traceback(body2[1])[1].error_type = <<"ImportError">>
    /\ extract_traceback(body1[1])[1].words = extract_traceback(body2[1])[1].words

\* C27: when exactly one body holds a traceback the score is less than 40:
\* 30 if the other body mentions an error, 0 otherwise; when neither holds
\* one the score is 0.
C27_OneSidedBelow40 ==
    traceback_sim # None =>
        LET found1 == FoundTraceback(body1[1]) # None
            found2 == FoundTraceback(body2[1]) # None
            other == IF found1 THEN body2[1] ELSE body1[1]
        IN  /\ (found1 # found2) =>
                  /\ traceback_sim[1] < Pct(40)
                  /\ traceback_sim[1] = IF other.mentions THEN Pct(30) ELSE 0
            /\ (~found1 /\ ~found2) => traceback_sim[1] = 0

\* C27 witness: the first body holds a traceback, the second holds none but
\* mentions an error: the score is 30.
C27_Witness ==
    /\ traceback_sim = <<Pct(30)>>
    /\ FoundTraceback(body1[1]) # None
    /\ FoundTraceback(body2[1]) = None
    /\ body2[1].mentions

\* ------------------------------------------------ claims on the final steps
\* C28: in a run of the updater the final events come in this order, each
\* only after every step has been applied: the target version is written to
\* the version marker, the temp directory is deleted, the main executable is
\* started, success is reported; none of them has happened without all the
\* earlier ones.
C28_FinalOrder ==
    /\ RunSucceeded => launched
    /\ launched => ~temp_exists
    /\ ~temp_exists => marker = <<latest_version>>
    /\ (~temp_exists \/ launched \/ RunSucceeded) =>
          /\ worker_path # <<>>
          /\ Len(step_log) = Len(worker_path)

\* The step being applied patches a file, and that file.
Patching ==
    /\ extract # None
    /\ extract[1].package_manifest.patch # None
    /\ step_log # <<>>

PatchTarget == extract[1].package_manifest.patch[1].file

\* C29: the patched content is first produced as '<target>.new' and then
\* moved over the target: while a package with a patch is applied the target
\* holds either its old content, with the new content complete in
\* '<target>.new' before the move, or the new content; when applying the
\* delta fails the install directory is as before the step, '<target>.new'
\* is gone and the run has ended with a failure.
C29_PatchAtomic ==
    /\ (Patching /\ w_pc = "replace") =>
          /\ patched_new # None
          /\ install = step_log[Len(step_log)].before
    /\ (Patching /\ w_pc \in {"delete", "copy"}) =>
          /\ patched_new = None
          /\ install[PatchTarget] =
                 bsdiff4_file_patch(step_log[Len(step_log)].before[PatchTarget],
                     assets[worker_path[w_step].file].entries[
                         extract[1].package_manifest.patch[1].patch_file])
    /\ (finished # <<>>
           /\ finished[Len(finished)].message = "Failed to apply binary patch") =>
          /\ install = step_log[Len(step_log)].before
          /\ patched_new = None
          /\ w_pc = "done"
          /\ ~finished[Len(finished)].success

\* C29 witness: applying the delta of the second package of a chain has
\* failed.
C29_Witness ==
    /\ finished # <<>>
    /\ finished[Len(finished)].message = "Failed to apply binary patch"
    /\ Len(step_log) = 2
    /\ step_log[1].written # {}

\* ------------------------------------------- claims on the shipped executable
\* The pairs of releases of the manifest between which the executable changed.
ExeChanged ==
    { p \in (DOMAIN manifest.versions) \X (DOMAIN manifest.versions) :
        /\ p[1] # p[2]
        /\ MAIN_APP_EXE \in DOMAIN manifest.versions[p[1]]
        /\ MAIN_APP_EXE \in DOMAIN manifest.versions[p[2]]
        /\ manifest.versions[p[1]][MAIN_APP_EXE] # manifest.versions[p[2]][MAIN_APP_EXE] }

\* The package the builder makes from p[1] to p[2] with old_exe.
BuiltBetween(p, old_exe) ==
    create_differential_package(p[1], p[2], manifest.versions[p[1]],
                                manifest.versions[p[2]], old_exe, "direct")

\* C30: between two releases whose executable differs, the builder without
\* the old executable still makes a package, which holds the full new
\* executable and whose package manifest declares no patch; with the old
\* executable it makes a package that holds the delta instead of the
\* executable, with old_sha256 the hash of the old executable.  The updater
\* applies a package without patch by copying, without looking at the hash of
\* the installed executable.
C30_FullExecutableFallback ==
    /\ \A p \in ExeChanged :
          LET without == BuiltBetween(p, None)
              with == BuiltBetween(p, <<manifest.versions[p[1]][MAIN_APP_EXE]>>)
          IN  /\ without # None
              /\ without[1].zip.package_manifest.patch = None
              /\ MAIN_APP_EXE \in DOMAIN without[1].zip.entries
              /\ without[1].zip.entries[MAIN_APP_EXE] =
                     WholeFile(manifest.versions[p[2]][MAIN_APP_EXE])
              /\ with # None
              /\ with[1].zip.package_manifest.patch # None
              /\ with[1].zip.package_manifest.patch[1].old_sha256 =
                     manifest.versions[p[1]][MAIN_APP_EXE]
              /\ MAIN_APP_EXE \notin DOMAIN with[1].zip.entries
              /\ with[1].zip.entries[
                     with[1].zip.package_manifest.patch[1].patch_file].kind = "patch"
    /\ \A i \in 1..Len(step_log) :
          step_log[i].expected = None =>
              /\ step_log[i].found = None
              /\ (MAIN_APP_EXE \in step_log[i].written /\ i = Len(step_log)
                     /\ w_pc \in {"step", "finalize"}) =>
                    install[MAIN_APP_EXE] =
                        manifest.versions[step_log[i].to_version][MAIN_APP_EXE]

\* C30 witness: a package without patch that holds the full executable has
\* been applied over an installed executable that is not the old release's,
\* and the run has reported success.
C30_Witness ==
    /\ RunSucceeded
    /\ Len(step_log) = 1
    /\ step_log[1].expected = None
    /\ MAIN_APP_EXE \in step_log[1].written
    /\ MAIN_APP_EXE \in DOMAIN step_log[1].before
    /\ step_log[1].before[MAIN_APP_EXE] = 0
    /\ install[MAIN_APP_EXE] = manifest.versions[step_log[1].to_version][MAIN_APP_EXE]

\* ------------------------------------------------- claims C31 to C39
\* The sessions whose call has returned and whose worker thread, if one was
\* started, has ended.
Ended == { t \in Sessions : h_pc[t] = "ended" }

\* C31: every call to download_manifest_and_start_update leads to exactly one
\* download_finished emission, whatever goes wrong: when the threads of n
\* calls have ended, n download_finished signals have been emitted, and a
\* call still running has not emitted its own yet.
C31_OneDownloadFinished ==
    Cardinality(DownloadFinishedAt) = Cardinality(Ended)

\* The signals emitted since the most recent call of check_for_updates, as
\* positions in signals (none before the first call).
SinceLastCheck ==
    { j \in 1..Len(signals) :
        \E k \in 1..(j - 1) :
           /\ signals[k] = <<"status_changed", "Checking for updates...">>
           /\ \A i \in (k + 1)..Len(signals) :
                  signals[i] # <<"status_changed", "Checking for updates...">> }

\* The most recent check has found an update: it has announced "Update
\* available" (update.py:96).
LastCheckFoundUpdate ==
    \E j \in SinceLastCheck :
       signals[j][1] = "status_changed" /\ signals[j][2] = "Update available"

\* The most recent check has completed with update_available = True
\* (update.py:99).
LastCheckCompletedTrue ==
    \E j \in SinceLastCheck :
       signals[j][1] = "update_check_finished" /\ signals[j][2]

\* The call of download_manifest_and_start_update of session t is made.
Called(t) == h_pc[t] = "unstarted" /\ h_pc'[t] # "unstarted"

\* C32: download_manifest_and_start_update starts its worker only if the most
\* recent check found an update; it never refuses after that check has
\* completed with update_available = True, and when it refuses it emits
\* error_occurred and download_finished(False, "") and starts no worker; and
\* a check started while a download worker is running does not disturb that
\* download: every worker that has ended has emitted its download_finished.
C32_DownloadOnlyAfterCheck ==
    /\ [][\A t \in Sessions :
            Called(t) =>
               IF h_pc'[t] = "manifest"
               THEN LastCheckFoundUpdate /\ signals' = signals
               ELSE /\ ~LastCheckCompletedTrue
                    /\ h_pc'[t] = "ended"
                    /\ signals' = Emit(<< <<"error_occurred", "Update check has not been run">>,
                                          <<"download_finished", FALSE, "">> >>)]_vars
    /\ [](Cardinality(Ended) = Cardinality(DownloadFinishedAt))

\* The versions a path visits, in order: where it starts and where each of
\* its packages leads.
Visited(path, s) == <<s>> \o [i \in 1..Len(path) |-> path[i].download_from_tag]

\* No version is visited twice.
NoRevisit(path, s) ==
    LET visited == Visited(path, s)
    IN  \A i, j \in 1..Len(visited) : visited[i] = visited[j] => i = j

\* path, when not empty, is a connected chain of packages of the manifest
\* from s to t that visits no version twice.
ConnectedChain(m, path, s, t) ==
    path # <<>> => IsChain(m, path, s, t) /\ NoRevisit(path, s)

\* C33: every non-empty path either resolver returns is a connected chain:
\* the first package leaves from start_version, each following package
\* leaves from the destination of the one before, the last package arrives
\* at end_version, and no version is visited twice.
C33_ConnectedChain ==
    /\ ConnectedChain(manifest, found_h, app_version, end_version)
    /\ ConnectedChain(manifest, found_w, app_version, end_version)
    /\ ConnectedChain(manifest, update_path, app_version, tag_name)
    /\ stage = "applied" =>
          ConnectedChain(manifest, worker_path, app_version, latest_version)

\* C33 witness: in a manifest with a cycle (a package leads back from the
\* newest release to the oldest) both resolvers have returned a chain of two
\* packages.
C33_Witness ==
    /\ stage = "worker"
    /\ \E v \in DOMAIN manifest.versions :
          \E p \in PackagesInto(manifest, v) : v < p.from_version
    /\ Len(found_h) = 2
    /\ Len(found_w) = 2

\* C34: whenever a run reports success, the version marker holds the target
\* version, the newest version of the manifest; success is never reported
\* with the marker still holding the old version.
C34_SuccessMarksTarget ==
    RunSucceeded => marker = <<latest_version>>

\* The second run of the updater has reported.
SecondRunReported == previous_run # None /\ Len(finished) = 2

\* C35: a second run after a run that failed at any step, on the same temp
\* data directory and install directory, either completes the update
\* successfully or reports failure with the install directory as the failed
\* run left it.
C35_RerunSafe ==
    SecondRunReported =>
        \/ finished[2].success
        \/ /\ install = previous_run[1].install
           /\ patched_new = previous_run[1].patched_new

\* The update_check_finished emissions so far, as positions in signals.
CheckFinishedAt ==
    { i \in 1..Len(signals) : signals[i][1] = "update_check_finished" }

\* The checks aborted while blocked in their network call.
AbortedChecks == IF abort_at = None THEN 0 ELSE 1

\* C36: each check_for_updates call produces at most one
\* update_check_finished emission and a check aborted during its network call
\* produces none, also when check_for_updates is called again while the
\* thread of the aborted check is still blocked: there are never more
\* emissions than calls that were not aborted.
C36_OneCheckFinished ==
    Cardinality(CheckFinishedAt) <= ChecksStarted - AbortedChecks

\* The updater is started on an install directory whose version marker
\* already names the newest version of the manifest it is given.
AtNewest ==
    /\ app_version = tag_name
    /\ temp_manifest # None
    /\ install_dir

ApplyUpdateFailed(o) == signals' = Emit(<< <<"error_occurred", o>> >>)

\* C38: when apply_update cannot start the updater (executable missing,
\* update directory missing, or startDetached fails), the application does
\* not quit and the setting "downloaded_update_dir" still names the
\* downloaded session, so that check_for_existing_download answers as before.
C38_FailedApplyKeepsState ==
    [][\A o \in {"no updater", "no update dir", "not started"} :
          ApplyUpdateFailed(o) =>
             /\ app_running'
             /\ settings' = settings
             /\ settings' = <<UpdateTempDir>>
             /\ check_for_existing_download' = check_for_existing_download]_vars

\* This step emits download_finished(True, dir).
EmitsDownloaded ==
    /\ Len(signals') > Len(signals)
    /\ signals'[Len(signals')] = <<"download_finished", TRUE, UpdateTempDir>>

\* C39: download_finished(True, dir) is emitted only when dir holds
\* manifest.json and, for every package of the resolved path, a file of the
\* size the manifest records for it; at that point total_bytes_received
\* equals total_download_size.
C39_DownloadedIsComplete ==
    [][EmitsDownloaded =>
          /\ temp_exists' /\ temp_manifest' # None
          /\ \A i \in 1..Len(update_path) :
                update_path[i].file \in CompleteFiles(update_path, temp_files')
          /\ total_bytes_received' = total_download_size']_vars

====
